---- MODULE Spec2Model ----
(***************************************************************************)
(* A model of the document pipeline of the IDP backend: the job            *)
(* orchestrator (api/pipeline.py, services/task_queue.py, infra/db.py),    *)
(* the stage services and the stores they write.                           *)
(***************************************************************************)
EXTENDS Integers, Sequences, FiniteSets, TLC

VARIABLES
    \* -- the job orchestrator
    jobs,        \* the jobs table: job_id -> row
    bg,          \* the background task _process_job registered for each job
    wk,          \* the polling worker thread (TaskQueueWorker._loop)
    runs,        \* pipeline runs: one per (executor, document)
    nextRun,     \* next free run id
    claimed,     \* job_id -> the executors that took the job up
    out,         \* ingest_index: the result reported for each run's document
    \* -- ingestion (services/ingestion.py)
    documents,   \* documents of the service's tenant: sha256 -> doc_id (0: no row)
    blob_puts,   \* sha256 -> number of put_file calls made for it
    up,          \* the uploads being processed by _process_one
    evlog,       \* the events table: how many events of each kind, per content
    res,         \* what store_many returned for the uploads of its request
    \* -- the stage services' stores, for one document
    blocks,      \* the blocks table, ordered by span_start
    chunks,      \* the chunks table
    chunk_plans, \* the chunk_plans table, oldest first
    kg_nodes,    \* the kg_nodes table
    kg_edges,    \* the kg_edges table
    points,      \* the vector index: the points of the document
    ext,         \* the extraction run in progress
    chk,         \* the chunking run in progress
    kg,          \* the graph build in progress
    chunkLog,    \* the last two completed chunking runs
    embedLog,    \* the last two completed embedding runs
    obs,         \* what a reader of the document last saw
    \* -- retrieval and answering
    docTenant,   \* documents of every tenant: doc_id -> tenant_id
    rchunks,     \* chunks of those documents
    invoices,    \* the invoices table: the doc_ids that have a row
    resp,        \* the last response a query got
    \* -- POST /answer_stream (api/answer.py)
    events,      \* the events the response has carried so far
    sq,          \* the asyncio.Queue between the token thread and streamer
    prod,        \* the token thread (_run_stream)
    strm,        \* the streamer coroutine
    \* -- GenerationService answers (services/generation.py)
    ans,         \* the last answer GenerationService gave
    \* -- the vector leg's circuit breaker (services/retrieval.py)
    brk,         \* the circuit breaker of _execute_vector_search
    now,         \* the monotonic clock in seconds
    vs,          \* the last vector_search call and what it did
    consec,      \* index calls that failed in a row up to now
    lastTrip,    \* when the breaker was last tripped
    \* -- embedding runs that can fail (services/embedder.py)
    erun,        \* the embedding runs so far and what the last one did
    \* -- a pipeline run whose stages can raise (api/pipeline.py _process)
    pd,          \* per document: its state and stages done and FAIL events
    \* -- per-file policy checks (services/ingestion.py _process_one)
    pdocs,       \* documents by content for the policy checks
    pol,         \* per upload: what _process_one was given and returned
    pevents,     \* the WARN events the policy checks recorded
    \* -- the per-document cap of search (services/retrieval.py)
    cres,        \* the last search call: its mode and the documents of its result list
    \* -- strategy selection of chunking (services/chunking.py run_one)
    tdoc,        \* the last chunking run over a small document: its blocks and plan and rows
    \* -- narrative packing (services/chunking.py _pack_narrative)
    pk,          \* one _pack_narrative call: its segments and loop indexes and rows
    \* -- soft delete and re-ingest (api/ui.py and api/pipeline.py smart_ingest)
    dstate,      \* documents by content: the state column of the row
    dtask,       \* the background _process tasks of smart_ingest: document and next stage
    \* -- graph expansion and its chunk cache (services/retrieval.py)
    cchunks,     \* the chunks table for one document: block -> chunk_id of its chunk
    cnext,       \* the next chunk id a chunking run gives out
    ccache,      \* RetrievalService._chunk_block_cache for the document
    cexp,        \* the last graph expansion: what it returned and what the store held
    \* -- two pipeline runs on one document (api/pipeline.py smart_ingest._process)
    qblocks,     \* the blocks table of the document: rows as run and index
    qchunks,     \* the chunks table of the document: rows as plan and source block
    qrun         \* the two pipeline runs: position and what chunking fetched and its plan

jobVars == <<jobs, bg, wk, runs, nextRun, claimed, out>>
ingestVars == <<documents, blob_puts, up, evlog, res>>
pipeVars == <<blocks, chunks, chunk_plans, kg_nodes, kg_edges, points, ext,
              chk, kg, chunkLog, embedLog, obs>>
retrVars == <<docTenant, rchunks, invoices, resp>>

streamVars == <<events, sq, prod, strm>>

genVars == <<ans>>

breakerVars == <<brk, now, vs, consec, lastTrip>>

embedVars == <<erun>>

stageVars == <<pd>>

policyVars == <<pdocs, pol, pevents>>

capVars == <<cres>>

tinyVars == <<tdoc>>

packVars == <<pk>>

deleteVars == <<dstate, dtask>>

cacheVars == <<cchunks, cnext, ccache, cexp>>

raceVars == <<qblocks, qchunks, qrun>>

vars == <<jobVars, ingestVars, pipeVars, retrVars, streamVars, genVars, breakerVars, embedVars, stageVars, policyVars, capVars, tinyVars, packVars, deleteVars, cacheVars, raceVars>>

\* what the actions of one subsystem leave alone
notJobVars == <<ingestVars, pipeVars, retrVars, streamVars, genVars, breakerVars, embedVars, stageVars, policyVars, capVars, tinyVars, packVars, deleteVars, cacheVars, raceVars>>
notIngestVars == <<jobVars, pipeVars, retrVars, streamVars, genVars, breakerVars, embedVars, stageVars, policyVars, capVars, tinyVars, packVars, deleteVars, cacheVars, raceVars>>
notPipeVars == <<jobVars, ingestVars, retrVars, streamVars, genVars, breakerVars, embedVars, stageVars, policyVars, capVars, tinyVars, packVars, deleteVars, cacheVars, raceVars>>
notRetrVars == <<jobVars, ingestVars, pipeVars, streamVars, genVars, breakerVars, embedVars, stageVars, policyVars, capVars, tinyVars, packVars, deleteVars, cacheVars, raceVars>>
notStreamVars == <<jobVars, ingestVars, pipeVars, retrVars, genVars, breakerVars, embedVars, stageVars, policyVars, capVars, tinyVars, packVars, deleteVars, cacheVars, raceVars>>
notGenVars == <<jobVars, ingestVars, pipeVars, retrVars, streamVars, breakerVars, embedVars, stageVars, policyVars, capVars, tinyVars, packVars, deleteVars, cacheVars, raceVars>>
notBreakerVars == <<jobVars, ingestVars, pipeVars, retrVars, streamVars, genVars, embedVars, stageVars, policyVars, capVars, tinyVars, packVars, deleteVars, cacheVars, raceVars>>
notEmbedVars == <<jobVars, ingestVars, pipeVars, retrVars, streamVars, genVars, breakerVars, stageVars, policyVars, capVars, tinyVars, packVars, deleteVars, cacheVars, raceVars>>
notPipeOrEmbedVars == <<jobVars, ingestVars, retrVars, streamVars, genVars, breakerVars, stageVars, policyVars, capVars, tinyVars, packVars, deleteVars, cacheVars, raceVars>>
notStageVars == <<jobVars, ingestVars, pipeVars, retrVars, streamVars, genVars, breakerVars, embedVars, policyVars, capVars, tinyVars, packVars, deleteVars, cacheVars, raceVars>>
notPolicyVars == <<jobVars, ingestVars, pipeVars, retrVars, streamVars, genVars, breakerVars, embedVars, stageVars, capVars, tinyVars, packVars, deleteVars, cacheVars, raceVars>>
notCapVars == <<jobVars, ingestVars, pipeVars, retrVars, streamVars, genVars, breakerVars, embedVars, stageVars, policyVars, tinyVars, packVars, deleteVars, cacheVars, raceVars>>
notTinyVars == <<jobVars, ingestVars, pipeVars, retrVars, streamVars, genVars, breakerVars, embedVars, stageVars, policyVars, capVars, packVars, deleteVars, cacheVars, raceVars>>
notPackVars == <<jobVars, ingestVars, pipeVars, retrVars, streamVars, genVars, breakerVars, embedVars, stageVars, policyVars, capVars, tinyVars, deleteVars, cacheVars, raceVars>>
notDeleteVars == <<jobVars, ingestVars, pipeVars, retrVars, streamVars, genVars, breakerVars, embedVars, stageVars, policyVars, capVars, tinyVars, packVars, cacheVars, raceVars>>
notCacheVars == <<jobVars, ingestVars, pipeVars, retrVars, streamVars, genVars, breakerVars, embedVars, stageVars, policyVars, capVars, tinyVars, packVars, deleteVars, raceVars>>
notRaceVars == <<jobVars, ingestVars, pipeVars, retrVars, streamVars, genVars, breakerVars, embedVars, stageVars, policyVars, capVars, tinyVars, packVars, deleteVars, cacheVars>>

(***************************************************************************)
(* Bounds                                                                  *)
(***************************************************************************)
MaxJobs == 2
MaxDocs == 2
MaxDocsPerJob == 2
MaxRuns == 4
MaxIndexRuns == 3

JobIds == 1..MaxJobs
DocIds == 1..MaxDocs
RunIds == 1..MaxRuns

(***************************************************************************)
(* The five stages and the order each execution mode calls them in         *)
(***************************************************************************)
AllStages == <<"Normalize", "Extract", "Chunk", "Graph", "Embed">>

\* ingest_index, async_process = False
InlineStages == <<"Normalize", "Extract", "Chunk", "Graph", "Embed">>

\* ingest_index._process, registered as a background task
BackgroundStages == <<"Normalize", "Extract", "Chunk", "Graph", "Embed">>

\* ingest_job._process_job, per document
JobStages == <<"Normalize", "Extract", "Chunk", "Graph", "Embed">>

\* TaskQueueWorker._execute_job, job type pipeline_process_doc
WorkerStages == <<"Normalize", "Extract", "Chunk", "Embed">>

ModeStages(mode) ==
    CASE mode = "inline"     -> InlineStages
      [] mode = "background" -> BackgroundStages
      [] mode = "job"        -> JobStages
      [] mode = "worker"     -> WorkerStages

\* NormalizationService.run_one takes keyword-only doc_id, sha256, mime.
\* The pipeline router calls it with keywords; the worker calls
\* run_one(doc_id) positionally, which raises TypeError before the stage
\* body is entered.
CallAccepted(mode, stage) ==
    ~(mode = "worker" /\ stage = "Normalize")

\* The name tenant_id is bound nowhere in create_pipeline_router: every
\* db.insert_event(tenant_id, ...) of ingest_index and _process_job raises
\* NameError.
PipelineTenantIdBound == FALSE

(***************************************************************************)
(* The jobs table                                                          *)
(***************************************************************************)
NoProgress == -1

NoJob == [status |-> "NONE", job_type |-> "NONE", doc_ids |-> <<>>,
          error_doc |-> 0, progress |-> NoProgress, error |-> "",
          has_result |-> FALSE]

\* insert_job: a fresh row, progress, result and error NULL
insert_job(job_type, doc_ids) ==
    [status |-> "PENDING", job_type |-> job_type, doc_ids |-> doc_ids,
     error_doc |-> 0, progress |-> NoProgress, error |-> "",
     has_result |-> FALSE]

\* update_job: every argument that is not None overwrites its column; the
\* WHERE clause names the job_id alone.  upd is a record holding the
\* arguments that were passed.
update_job(row, upd) ==
    [status     |-> IF "status" \in DOMAIN upd THEN upd.status ELSE row.status,
     job_type   |-> row.job_type,
     doc_ids    |-> IF "payload" \in DOMAIN upd THEN <<>> ELSE row.doc_ids,
     error_doc  |-> IF "payload" \in DOMAIN upd THEN upd.payload
                                                ELSE row.error_doc,
     progress   |-> IF "progress" \in DOMAIN upd THEN upd.progress
                                                 ELSE row.progress,
     error      |-> IF "error" \in DOMAIN upd THEN upd.error ELSE row.error,
     has_result |-> IF "result" \in DOMAIN upd THEN TRUE ELSE row.has_result]

\* round((i/total)*100.0, 2), kept as hundredths of a percent
Progress(i, total) == (i * 10000) \div total

FullProgress == 10000

RECURSIVE SeqsUpTo(_, _)
SeqsUpTo(S, n) ==
    IF n = 0 THEN {<<>>}
    ELSE LET shorter == SeqsUpTo(S, n - 1)
         IN  shorter \cup
             {Append(s, x) : s \in {t \in shorter : Len(t) = n - 1}, x \in S}

(***************************************************************************)
(* Pipeline runs                                                           *)
(***************************************************************************)
NoRun == [mode |-> "none", doc |-> 0, job |-> 0, started |-> <<>>,
          completed |-> 0, outcome |-> "none"]

NewRun(mode, doc, job) ==
    [mode |-> mode, doc |-> doc, job |-> job, started |-> <<>>,
     completed |-> 0, outcome |-> "running"]

Finished(r) == r.outcome \in {"ok", "stage_failed", "call_error"}

\* One stage call of a run.  The executor calls the next stage of its
\* mode's list; a call the callee's signature rejects raises before the
\* stage is entered; an entered stage either returns or raises.
StageCall(r, ok) ==
    LET stages == ModeStages(r.mode)
        stage  == stages[r.completed + 1]
    IN  IF ~CallAccepted(r.mode, stage)
        THEN [r EXCEPT !.outcome = "call_error"]
        ELSE IF ~ok
        THEN [r EXCEPT !.started = Append(@, stage),
                       !.outcome = "stage_failed"]
        ELSE [r EXCEPT !.started = Append(@, stage),
                       !.completed = @ + 1,
                       !.outcome = IF r.completed + 1 = Len(stages)
                                   THEN "ok" ELSE "running"]

RunStage(id) ==
    /\ runs[id].outcome = "running"
    /\ \E ok \in BOOLEAN : runs' = [runs EXCEPT ![id] = StageCall(@, ok)]
    /\ UNCHANGED <<jobs, bg, wk, nextRun, claimed, out, notJobVars>>

(***************************************************************************)
(* POST /pipeline/ingest_job                                               *)
(***************************************************************************)
NoTask == [pc |-> "none", i |-> 0, run |-> 0, docs |-> <<>>]

FreeJobs == {j \in JobIds : jobs[j].status = "NONE"}

\* job ids are handed out in creation order, so ORDER BY created_at is the
\* order of the ids
NewJobId == CHOOSE x \in FreeJobs : \A y \in FreeJobs : x <= y

\* The handler stores the files, inserts the PENDING job and registers
\* _process_job(job_id, doc_ids) as a background task.  doc_ids are the
\* documents store_many returned an id for.
ingest_job(doc_ids) ==
    /\ FreeJobs # {}
    /\ jobs' = [jobs EXCEPT ![NewJobId] = insert_job("INGEST_INDEX", doc_ids)]
    /\ bg' = [bg EXCEPT ![NewJobId] =
                 [pc |-> "registered", i |-> 0, run |-> 0, docs |-> doc_ids]]
    /\ UNCHANGED <<wk, runs, nextRun, claimed, out, notJobVars>>

\* _process_job, first statement: update_job(status="RUNNING", progress=0.0)
ProcessJobStart(j) ==
    /\ bg[j].pc = "registered"
    /\ jobs' = [jobs EXCEPT ![j] =
                    update_job(@, [status |-> "RUNNING", progress |-> 0])]
    /\ bg' = [bg EXCEPT ![j].pc = "loop", ![j].i = 1]
    /\ claimed' = [claimed EXCEPT ![j] = @ \cup {"task"}]
    /\ UNCHANGED <<wk, runs, nextRun, out, notJobVars>>

\* loop body, up to the first stage: the document's row is read and its
\* pipeline run begins
ProcessJobDoc(j) ==
    /\ bg[j].pc = "loop"
    /\ bg[j].run = 0
    /\ bg[j].i <= Len(bg[j].docs)
    /\ nextRun <= MaxRuns
    /\ runs' = [runs EXCEPT ![nextRun] = NewRun("job", bg[j].docs[bg[j].i], j)]
    /\ bg' = [bg EXCEPT ![j].run = nextRun]
    /\ nextRun' = nextRun + 1
    /\ UNCHANGED <<jobs, wk, claimed, out, notJobVars>>

\* loop body, after the stages.  A run that went through records the
\* PIPELINE OK event; a stage that raised is handled by the inner except,
\* which records the FAIL event and the error in the payload.  Either
\* insert_event evaluates tenant_id: unbound, the NameError leaves the inner
\* try (from its except clause too) and reaches the outer except, which
\* marks the job ERROR and ends the task.
ProcessJobAfterDoc(j) ==
    /\ bg[j].pc = "loop"
    /\ bg[j].run # 0
    /\ Finished(runs[bg[j].run])
    /\ LET r       == runs[bg[j].run]
           total   == IF Len(bg[j].docs) > 1 THEN Len(bg[j].docs) ELSE 1
           payload == IF r.outcome = "ok" THEN jobs[j]
                      ELSE update_job(jobs[j], [payload |-> r.doc])
       IN  IF PipelineTenantIdBound
           THEN /\ jobs' = [jobs EXCEPT ![j] =
                      update_job(payload,
                                 [progress |-> Progress(bg[j].i, total)])]
                /\ bg' = [bg EXCEPT ![j].i = @ + 1, ![j].run = 0]
           ELSE /\ jobs' = [jobs EXCEPT ![j] =
                      update_job(@, [status |-> "ERROR",
                                     error |-> "NameError"])]
                /\ bg' = [bg EXCEPT ![j].pc = "done", ![j].run = 0]
    /\ UNCHANGED <<wk, runs, nextRun, claimed, out, notJobVars>>

\* after the loop: update_job(status="DONE", progress=100.0, result=...)
ProcessJobFinish(j) ==
    /\ bg[j].pc = "loop"
    /\ bg[j].run = 0
    /\ bg[j].i > Len(bg[j].docs)
    /\ jobs' = [jobs EXCEPT ![j] =
                    update_job(@, [status |-> "DONE",
                                   progress |-> FullProgress,
                                   result |-> TRUE])]
    /\ bg' = [bg EXCEPT ![j].pc = "done"]
    /\ UNCHANGED <<wk, runs, nextRun, claimed, out, notJobVars>>

(***************************************************************************)
(* The polling worker                                                      *)
(***************************************************************************)
IdleWorker == [pc |-> "poll", job |-> 0, job_type |-> "NONE",
               payload |-> <<>>, run |-> 0]

PendingJobs == {j \in JobIds : jobs[j].status = "PENDING"}

\* SELECT ... WHERE status = 'PENDING' ORDER BY created_at ASC LIMIT 1:
\* a plain read, no row lock
_fetch_next_job == CHOOSE j \in PendingJobs : \A k \in PendingJobs : j <= k

\* a row of the type the worker's dispatcher serves; no endpoint of the
\* service inserts one, the producer is another client of the jobs table
EnqueuePipelineJob(payload) ==
    /\ FreeJobs # {}
    /\ jobs' = [jobs EXCEPT ![NewJobId] =
                    insert_job("pipeline_process_doc", payload)]
    /\ UNCHANGED <<bg, wk, runs, nextRun, claimed, out, notJobVars>>

\* _loop: job = self._fetch_next_job()
WorkerFetch ==
    /\ wk.pc = "poll"
    /\ PendingJobs # {}
    /\ wk' = [pc |-> "fetched", job |-> _fetch_next_job,
              job_type |-> jobs[_fetch_next_job].job_type,
              payload |-> jobs[_fetch_next_job].doc_ids, run |-> 0]
    /\ UNCHANGED <<jobs, bg, runs, nextRun, claimed, out, notJobVars>>

\* _loop: self.db.update_job(job_id, status="RUNNING")
WorkerMarkRunning ==
    /\ wk.pc = "fetched"
    /\ jobs' = [jobs EXCEPT ![wk.job] = update_job(@, [status |-> "RUNNING"])]
    /\ wk' = [wk EXCEPT !.pc = "execute"]
    /\ claimed' = [claimed EXCEPT ![wk.job] = @ \cup {"worker"}]
    /\ UNCHANGED <<bg, runs, nextRun, out, notJobVars>>

\* _execute_job up to the first stage.  An unknown job type and a payload
\* without doc_id raise ValueError, which _loop records as ERROR.
WorkerDispatch ==
    /\ wk.pc = "execute"
    /\ IF wk.job_type = "pipeline_process_doc" /\ Len(wk.payload) > 0
       THEN /\ nextRun <= MaxRuns
            /\ runs' = [runs EXCEPT ![nextRun] =
                            NewRun("worker", wk.payload[1], wk.job)]
            /\ nextRun' = nextRun + 1
            /\ wk' = [wk EXCEPT !.pc = "stages", !.run = nextRun]
            /\ UNCHANGED jobs
       ELSE /\ jobs' = [jobs EXCEPT ![wk.job] =
                            update_job(@, [status |-> "ERROR",
                                           error |-> "ValueError"])]
            /\ wk' = IdleWorker
            /\ UNCHANGED <<runs, nextRun>>
    /\ UNCHANGED <<bg, claimed, out, notJobVars>>

\* _loop after _execute_job: DONE with the result and progress 100, or
\* ERROR with the exception's message
WorkerAfterRun ==
    /\ wk.pc = "stages"
    /\ Finished(runs[wk.run])
    /\ jobs' = [jobs EXCEPT ![wk.job] =
           IF runs[wk.run].outcome = "ok"
           THEN update_job(@, [status |-> "DONE", result |-> TRUE,
                               progress |-> FullProgress])
           ELSE update_job(@, [status |-> "ERROR",
                               error |-> runs[wk.run].outcome])]
    /\ wk' = IdleWorker
    /\ UNCHANGED <<bg, runs, nextRun, claimed, out, notJobVars>>

(***************************************************************************)
(* POST /pipeline/ingest_index, one stored document                        *)
(***************************************************************************)
\* no entry of "results" yet
NoResultItem == [doc_id |-> 0, status |-> "none"]

\* async_process with background tasks registers _process; otherwise the
\* handler awaits the stages itself
ingest_index(doc, async_process) ==
    /\ nextRun <= MaxIndexRuns
    /\ runs' = [runs EXCEPT ![nextRun] =
           NewRun(IF async_process THEN "background" ELSE "inline", doc, 0)]
    /\ out' = [out EXCEPT ![nextRun] =
           IF async_process THEN [doc_id |-> doc, status |-> "QUEUED"] ELSE @]
    /\ nextRun' = nextRun + 1
    /\ UNCHANGED <<jobs, bg, wk, claimed, notJobVars>>

\* the inline branch once the stage calls are over.  With every stage
\* done, db.insert_event(tenant_id, ...) comes before out.append(OK); with
\* a stage that raised, the except branch calls it before
\* out.append(FAIL).  When the call raises, in the try or in the except
\* branch, the outer except appends FAIL with that error.
InlineStatus(r) ==
    IF r.outcome = "ok" /\ PipelineTenantIdBound THEN "OK" ELSE "FAIL"

ingest_index_inline_result(id) ==
    /\ runs[id].mode = "inline"
    /\ Finished(runs[id])
    /\ out[id] = NoResultItem
    /\ out' = [out EXCEPT ![id] =
           [doc_id |-> runs[id].doc, status |-> InlineStatus(runs[id])]]
    /\ UNCHANGED <<jobs, bg, wk, runs, nextRun, claimed, notJobVars>>

(***************************************************************************)
(* The job orchestrator's specification                                    *)
(***************************************************************************)
JobsInit ==
    /\ jobs = [j \in JobIds |-> NoJob]
    /\ bg = [j \in JobIds |-> NoTask]
    /\ wk = IdleWorker
    /\ runs = [r \in RunIds |-> NoRun]
    /\ nextRun = 1
    /\ claimed = [j \in JobIds |-> {}]
    /\ out = [r \in RunIds |-> NoResultItem]

NextJobs ==
    \/ \E doc_ids \in SeqsUpTo(DocIds, MaxDocsPerJob) : ingest_job(doc_ids)
    \/ \E j \in JobIds : ProcessJobStart(j)
    \/ \E j \in JobIds : ProcessJobDoc(j)
    \/ \E j \in JobIds : ProcessJobAfterDoc(j)
    \/ \E j \in JobIds : ProcessJobFinish(j)
    \/ \E payload \in SeqsUpTo(DocIds, 1) : EnqueuePipelineJob(payload)
    \/ WorkerFetch
    \/ WorkerMarkRunning
    \/ WorkerDispatch
    \/ WorkerAfterRun
    \/ \E id \in RunIds : RunStage(id)

(***************************************************************************)
(* The inline and background modes of ingest_index on their own            *)
(***************************************************************************)
NextIndex ==
    \/ \E d \in DocIds, a \in BOOLEAN : ingest_index(d, a)
    \/ \E id \in RunIds : RunStage(id)
    \/ \E id \in RunIds : ingest_index_inline_result(id)

(***************************************************************************)
(* Ingestion: IngestionService.store_many and ingest_from_url              *)
(* (services/ingestion.py)                                                 *)
(*                                                                         *)
(* store_many hands every upload of a request to _process_one on a thread  *)
(* pool, and requests themselves are served concurrently, so the uploads   *)
(* below interleave freely.  An upload comes as a file or as a URL         *)
(* (ingest_from_url), which goes through the same steps with its own       *)
(* statements.  The service has one tenant_id; documents is the part of    *)
(* the documents table that belongs to it.  The database connection is in  *)
(* autocommit mode: each statement is its own transaction.                 *)
(***************************************************************************)
MaxUploads == 3
MaxShas == 2

Uploads == 1..MaxUploads
Shas == 1..MaxShas

\* IngestResponseItem, the fields the dedup contract speaks of
NoItem == [doc_id |-> 0, state |-> "NONE", duplicate |-> FALSE]

IdleUpload == [pc |-> "idle", sha |-> 0, item |-> NoItem, via |-> "none"]

ErrorItem == [doc_id |-> 0, state |-> "ERROR", duplicate |-> FALSE]

\* what store_many gave back: nothing yet, the list of items, or an
\* exception
NoResult == [status |-> "none", files |-> {}, items |-> {}]

\* the kinds of event the ingestion writes
EventKinds == {"DOC_STORED", "DOC_STORED_URL", "DOC_DUPLICATE", "DOC_STORE_FAIL"}

\* db.insert_event with details.event = kind, for the content sha
insert_event(kind, sha) ==
    evlog' = [evlog EXCEPT ![kind][sha] = @ + 1]

\* SELECT doc_id FROM documents WHERE tenant_id=%s AND sha256=%s
find_doc_by_hash(sha) == documents[sha]

\* new_uuid(): a doc_id no document has yet
new_uuid == 1 + Cardinality({s \in Shas : documents[s] # 0})

\* _process_one up to the dedupe lookup: the upload is hashed to a temp
\* file and passes the filename, size and mime policies.
compute_hashes_to_tmp(u, sha) ==
    /\ up[u].pc = "idle"
    /\ up' = [up EXCEPT ![u] = [pc |-> "hashed", sha |-> sha, item |-> NoItem,
                                via |-> "file"]]
    /\ UNCHANGED <<documents, blob_puts, evlog, res, notIngestVars>>

\* ingest_from_url up to the dedupe lookup: the URL passes the SSRF guard,
\* is downloaded to a temp file and hashed.
download_url(u, sha) ==
    /\ up[u].pc = "idle"
    /\ up' = [up EXCEPT ![u] = [pc |-> "hashed", sha |-> sha, item |-> NoItem,
                                via |-> "url"]]
    /\ UNCHANGED <<documents, blob_puts, evlog, res, notIngestVars>>

\* The dedupe lookup: an existing document ends the upload as a duplicate.
\* _process_one records a DOC_DUPLICATE event first; ingest_from_url
\* returns the item (whose events field says DOC_DUPLICATE) and records
\* nothing.
Dedupe(u) ==
    /\ up[u].pc = "hashed"
    /\ LET existing_doc == find_doc_by_hash(up[u].sha)
       IN  /\ up' = [up EXCEPT ![u] =
                    IF existing_doc # 0
                    THEN [@ EXCEPT !.pc = "done",
                                   !.item = [doc_id |-> existing_doc,
                                             state |-> "STORED",
                                             duplicate |-> TRUE]]
                    ELSE [@ EXCEPT !.pc = "upload"]]
           /\ IF existing_doc # 0 /\ up[u].via = "file"
              THEN insert_event("DOC_DUPLICATE", up[u].sha)
              ELSE UNCHANGED evlog
    /\ UNCHANGED <<documents, blob_puts, res, notIngestVars>>

\* store.put_file followed by db.upsert_blob (an upsert on sha256)
put_file(u) ==
    /\ up[u].pc = "upload"
    /\ blob_puts' = [blob_puts EXCEPT ![up[u].sha] = @ + 1]
    /\ up' = [up EXCEPT ![u].pc = "insert"]
    /\ UNCHANGED <<documents, evlog, res, notIngestVars>>

\* db.insert_document: a plain INSERT under the unique index
\* uq_documents_tenant_sha, then the event: DOC_STORED from _process_one,
\* DOC_STORED_URL from ingest_from_url.  A violation raises: the except
\* branch of _process_one records DOC_STORE_FAIL and answers with state
\* ERROR and no doc_id; that of ingest_from_url answers the same and
\* records nothing.
insert_document(u) ==
    /\ up[u].pc = "insert"
    /\ IF documents[up[u].sha] = 0
       THEN /\ documents' = [documents EXCEPT ![up[u].sha] = new_uuid]
            /\ up' = [up EXCEPT ![u].pc = "done",
                                ![u].item = [doc_id |-> new_uuid,
                                             state |-> "STORED",
                                             duplicate |-> FALSE]]
            /\ insert_event(IF up[u].via = "file" THEN "DOC_STORED"
                            ELSE "DOC_STORED_URL", up[u].sha)
       ELSE /\ UNCHANGED documents
            /\ up' = [up EXCEPT ![u].pc = "done", ![u].item = ErrorItem]
            /\ IF up[u].via = "file"
               THEN insert_event("DOC_STORE_FAIL", up[u].sha)
               ELSE UNCHANGED evlog
    /\ UNCHANGED <<blob_puts, res, notIngestVars>>

IngestInit ==
    /\ documents = [s \in Shas |-> 0]
    /\ blob_puts = [s \in Shas |-> 0]
    /\ up = [u \in Uploads |-> IdleUpload]
    /\ evlog = [k \in EventKinds |-> [s \in Shas |-> 0]]
    /\ res = NoResult

NextIngest ==
    \/ \E u \in Uploads, sha \in Shas : compute_hashes_to_tmp(u, sha)
    \/ \E u \in Uploads, sha \in Shas : download_url(u, sha)
    \/ \E u \in Uploads : Dedupe(u)
    \/ \E u \in Uploads : put_file(u)
    \/ \E u \in Uploads : insert_document(u)

(***************************************************************************)
(* One store_many call over files, with calls that fail                    *)
(*                                                                         *)
(* The uploads that were started are the files of the request.  The object *)
(* store can fail on a file (put_file raises), and so can the database     *)
(* (the connection is lost: a statement raises, and the statements after   *)
(* it do until the connection is back).                                    *)
(***************************************************************************)
StartedUploads == {u \in Uploads : up[u].pc # "idle"}

\* store.put_file raises: the except branch records DOC_STORE_FAIL and
\* returns the ERROR item
put_file_fails(u) ==
    /\ up[u].pc = "upload"
    /\ up' = [up EXCEPT ![u].pc = "done", ![u].item = ErrorItem]
    /\ insert_event("DOC_STORE_FAIL", up[u].sha)
    /\ UNCHANGED <<documents, blob_puts, res, notIngestVars>>

\* a statement of _process_one raises because the connection is lost
\* (find_doc_by_hash at the dedupe lookup, insert_document after the
\* upload).  The except branch calls insert_event on the same connection:
\* when that works (back) the ERROR item is returned, when it raises too
\* the exception leaves _process_one.
db_statement_fails(u, back) ==
    /\ up[u].pc \in {"hashed", "insert"}
    /\ IF back
       THEN /\ up' = [up EXCEPT ![u].pc = "done", ![u].item = ErrorItem]
            /\ insert_event("DOC_STORE_FAIL", up[u].sha)
       ELSE /\ up' = [up EXCEPT ![u].pc = "raised"]
            /\ UNCHANGED evlog
    /\ UNCHANGED <<documents, blob_puts, res, notIngestVars>>

\* results = list(executor.map(_process_one, uploads)); return results.
\* The list is built once every file is through; an exception that left
\* _process_one is raised again by the iteration and leaves store_many.
store_many_return ==
    /\ res.status = "none"
    /\ StartedUploads # {}
    /\ \A u \in StartedUploads : up[u].pc \in {"done", "raised"}
    /\ res' = IF \E u \in StartedUploads : up[u].pc = "raised"
              THEN [status |-> "raised", files |-> StartedUploads, items |-> {}]
              ELSE [status |-> "returned", files |-> StartedUploads,
                    items |-> {[file |-> u, state |-> up[u].item.state] :
                                  u \in StartedUploads}]
    /\ UNCHANGED <<documents, blob_puts, up, evlog, notIngestVars>>

\* the files of one request and its return; an upload that starts after
\* the return belongs to a later request
NextBatch ==
    \/ \E u \in Uploads, sha \in Shas : compute_hashes_to_tmp(u, sha)
    \/ \E u \in Uploads : Dedupe(u)
    \/ \E u \in Uploads : put_file(u)
    \/ \E u \in Uploads : insert_document(u)
    \/ \E u \in Uploads : put_file_fails(u)
    \/ \E u \in Uploads, back \in BOOLEAN : db_statement_fails(u, back)
    \/ store_many_return

(***************************************************************************)
(* The stage services and their stores, for one document                   *)
(*                                                                         *)
(* Extraction, chunking, graph building and embedding of one document,     *)
(* each as the sequence of statements it sends to the database (autocommit:*)
(* every statement is visible to other connections as soon as it is done)  *)
(* and to the vector index.  The stages of a document can run at the same  *)
(* time: an ingest job is executed by its background task and by the       *)
(* polling worker, and ingest_index can be called again while a run is in  *)
(* progress.  The document's blocks are tables, which chunking turns into  *)
(* one chunk each (strategy "layout").                                     *)
(***************************************************************************)
MaxBlocks == 2
MaxTexts == 2
MaxExtractRuns == 2
MaxChunkRuns == 2
MaxGraphRuns == 2
MaxEmbedRuns == 2

Texts == 1..MaxTexts

\* the block texts an extraction run can come up with
BlockTexts == {s \in SeqsUpTo(Texts, MaxBlocks) : Len(s) >= 1}

\* ---- Python values that matter to the checksum comparison ----
PyNone == [type |-> "NoneType", val |-> ""]
PyStr(s) == [type |-> "str", val |-> s]

\* str(x)
str(x) == IF x.type = "NoneType" THEN PyStr("None") ELSE x

\* x or d
py_or(x, d) == IF x = PyNone \/ x = PyStr("") THEN d ELSE x

\* d.get(key) on a row returned with row_factory=dict_row
get(d, key) == IF key \in DOMAIN d THEN d[key] ELSE PyNone

\* hashlib.sha256(text).hexdigest()
_checksum(text) == PyStr("sha256:" \o ToString(text))

\* str(uuid.uuid4()) in extraction.py and graph.py: an id no earlier call
\* returned -- the k-th id drawn by the run-th execution
_new_id(run, k) == run * (MaxBlocks + 1) + k

\* str(uuid.uuid4()) in chunking.py
_id(run, k) == run * (MaxBlocks + 1) + k

\* the last two entries of a log
LastTwo(log) == IF Len(log) <= 2 THEN log ELSE SubSeq(log, Len(log) - 1, Len(log))

Range(f) == {f[x] : x \in DOMAIN f}

\* ---- Extraction: ExtractionService._run_with_manifest ----
IdleExt == [pc |-> "idle", n |-> 0, rows |-> <<>>, old |-> <<>>]

\* blocks_rows as built from the manifest
blocks_rows(run, texts) ==
    [k \in 1..Len(texts) |->
        [block_id |-> _new_id(run, k), span_start |-> k, type |-> "table",
         text |-> texts[k]]]

ExtractBuild(texts) ==
    /\ ext.pc = "idle"
    /\ ext.n < MaxExtractRuns
    /\ ext' = [pc |-> "built", n |-> ext.n + 1,
               rows |-> blocks_rows(ext.n + 1, texts), old |-> blocks]
    /\ UNCHANGED <<blocks, chunks, chunk_plans, kg_nodes, kg_edges, points,
                   chk, kg, chunkLog, embedLog, obs,
                   notPipeVars>>

\* DELETE FROM blocks WHERE doc_id=%s
delete_blocks_for_doc ==
    /\ ext.pc = "built"
    /\ blocks' = <<>>
    /\ ext' = [ext EXCEPT !.pc = "deleted"]
    /\ UNCHANGED <<chunks, chunk_plans, kg_nodes, kg_edges, points,
                   chk, kg, chunkLog, embedLog, obs,
                   notPipeVars>>

\* INSERT INTO blocks ... (executemany)
insert_blocks_bulk ==
    /\ ext.pc = "deleted"
    /\ blocks' = ext.rows
    /\ ext' = [IdleExt EXCEPT !.n = ext.n]
    /\ UNCHANGED <<chunks, chunk_plans, kg_nodes, kg_edges, points,
                   chk, kg, chunkLog, embedLog, obs,
                   notPipeVars>>

\* ---- Chunking: ChunkingService.run_one ----
IdleChk == [pc |-> "idle", n |-> 0, blocks |-> <<>>, plan |-> 0,
            rows |-> {}, old |-> {}]

\* the strategy run_one picks: "layout" whenever a table exists
Strategy(blks) ==
    IF \E k \in DOMAIN blks : blks[k].type = "table" THEN "layout" ELSE "section"

\* _make_layout: one chunk per table block
_make_layout(run, plan_id, blks) ==
    {[chunk_id |-> _id(run, k), plan_id |-> plan_id,
      span_start |-> blks[k].span_start, text |-> blks[k].text,
      checksum |-> _checksum(blks[k].text)] :
        k \in {i \in DOMAIN blks : blks[i].type = "table"}}

\* fetch_blocks_for_doc, the choice of strategy and insert_chunk_plan, which
\* draws a new plan_id for the row it inserts.  Without blocks run_one
\* raises no_blocks.
insert_chunk_plan ==
    /\ chk.pc = "idle"
    /\ chk.n < MaxChunkRuns
    /\ blocks # <<>>
    /\ LET plan_id == _id(chk.n + 1, 0)
       IN  /\ chunk_plans' = Append(chunk_plans,
                                [plan_id |-> plan_id,
                                 strategy |-> Strategy(blocks),
                                 block_count |-> Len(blocks)])
           /\ chk' = [pc |-> "planned", n |-> chk.n + 1, blocks |-> blocks,
                      plan |-> plan_id,
                      rows |-> _make_layout(chk.n + 1, plan_id, blocks),
                      old |-> chunks]
    /\ UNCHANGED <<blocks, chunks, kg_nodes, kg_edges, points, ext, kg,
                   chunkLog, embedLog, obs, notPipeVars>>

\* DELETE FROM chunks WHERE doc_id=%s ("idempotent: clear previous")
delete_chunks_for_doc ==
    /\ chk.pc = "planned"
    /\ chunks' = {}
    /\ chk' = [chk EXCEPT !.pc = "deleted"]
    /\ UNCHANGED <<blocks, chunk_plans, kg_nodes, kg_edges, points, ext, kg,
                   chunkLog, embedLog, obs, notPipeVars>>

\* the plan row of a chunking run
PlanRow(plan_id) ==
    CHOOSE p \in Range(chunk_plans) : p.plan_id = plan_id

\* INSERT INTO chunks ... (executemany), after which run_one returns
insert_chunks_bulk ==
    /\ chk.pc = "deleted"
    /\ chunks' = chk.rows
    /\ chunkLog' = LastTwo(Append(chunkLog,
                      [blocks |-> chk.blocks,
                       strategy |-> PlanRow(chk.plan).strategy,
                       block_count |-> PlanRow(chk.plan).block_count,
                       plan_id |-> chk.plan,
                       chunk_ids |-> {c.chunk_id : c \in chk.rows},
                       checksums |-> {<<c.span_start, c.checksum>> : c \in chk.rows}]))
    /\ chk' = [IdleChk EXCEPT !.n = chk.n]
    /\ UNCHANGED <<blocks, chunk_plans, kg_nodes, kg_edges, points, ext, kg,
                   embedLog, obs, notPipeVars>>

\* ---- Graph: KnowledgeGraphService.build and DBClient.replace_graph ----
IdleKg == [pc |-> "idle", n |-> 0, nodes |-> {}, edges |-> {},
           old |-> [nodes |-> {}, edges |-> {}]]

\* the nodes build makes: the document's root and one node per block
GraphNodes(run, blks) ==
    {[node_id |-> _new_id(run, 0), type |-> "document", source_block_id |-> 0]}
    \cup {[node_id |-> _new_id(run, k), type |-> blks[k].type,
           source_block_id |-> blks[k].block_id] : k \in DOMAIN blks}

\* the edges build makes: root contains each block (there are no headers),
\* and each block follows the one before it
GraphEdges(run, blks) ==
    {[src_node_id |-> _new_id(run, 0), dst_node_id |-> _new_id(run, k),
      rel_type |-> "contains"] : k \in DOMAIN blks}
    \cup {[src_node_id |-> _new_id(run, k - 1), dst_node_id |-> _new_id(run, k),
           rel_type |-> "follows"] : k \in DOMAIN blks \ {1}}

\* build up to the call of replace_graph; without blocks it raises
GraphBuild ==
    /\ kg.pc = "idle"
    /\ kg.n < MaxGraphRuns
    /\ blocks # <<>>
    /\ kg' = [pc |-> "built", n |-> kg.n + 1,
              nodes |-> GraphNodes(kg.n + 1, blocks),
              edges |-> GraphEdges(kg.n + 1, blocks),
              old |-> [nodes |-> kg_nodes, edges |-> kg_edges]]
    /\ UNCHANGED <<blocks, chunks, chunk_plans, kg_nodes, kg_edges, points,
                   ext, chk, chunkLog, embedLog, obs,
                   notPipeVars>>

\* replace_graph, statement 1: DELETE FROM kg_edges WHERE doc_id=%s
ReplaceGraphDeleteEdges ==
    /\ kg.pc = "built"
    /\ kg_edges' = {}
    /\ kg' = [kg EXCEPT !.pc = "edges_deleted"]
    /\ UNCHANGED <<blocks, chunks, chunk_plans, kg_nodes, points,
                   ext, chk, chunkLog, embedLog, obs,
                   notPipeVars>>

\* replace_graph, statement 2: DELETE FROM kg_nodes WHERE doc_id=%s
ReplaceGraphDeleteNodes ==
    /\ kg.pc = "edges_deleted"
    /\ kg_nodes' = {}
    /\ kg' = [kg EXCEPT !.pc = "nodes_deleted"]
    /\ UNCHANGED <<blocks, chunks, chunk_plans, kg_edges, points,
                   ext, chk, chunkLog, embedLog, obs,
                   notPipeVars>>

\* replace_graph, statement 3: INSERT INTO kg_nodes ...
ReplaceGraphInsertNodes ==
    /\ kg.pc = "nodes_deleted"
    /\ kg_nodes' = kg.nodes
    /\ kg' = [kg EXCEPT !.pc = "nodes_inserted"]
    /\ UNCHANGED <<blocks, chunks, chunk_plans, kg_edges, points,
                   ext, chk, chunkLog, embedLog, obs,
                   notPipeVars>>

\* replace_graph, statement 4: INSERT INTO kg_edges ...
ReplaceGraphInsertEdges ==
    /\ kg.pc = "nodes_inserted"
    /\ kg_edges' = kg.edges
    /\ kg' = [IdleKg EXCEPT !.n = kg.n]
    /\ UNCHANGED <<blocks, chunks, chunk_plans, kg_nodes, points,
                   ext, chk, chunkLog, embedLog, obs,
                   notPipeVars>>

\* ---- Embedding: EmbeddingService.run_one ----
\* SELECT chunk_id, plan_id, ..., text, meta FROM chunks WHERE doc_id=%s:
\* the rows come back without the checksum column
fetch_chunks_for_doc ==
    {[chunk_id |-> c.chunk_id, plan_id |-> c.plan_id,
      span_start |-> c.span_start, text |-> c.text] : c \in chunks}

\* VectorStore.get_existing_checksums: chunk_id -> str(payload checksum or "")
get_existing_checksums ==
    [cid \in {p.id : p \in points} |->
        str(py_or((CHOOSE p \in points : p.id = cid).checksum, PyStr("")))]

\* existing.get(cid)
existing_get(existing, cid) ==
    IF cid \in DOMAIN existing THEN existing[cid] ELSE PyNone

\* the point upserted for a chunk: its id and the checksum of its payload
_payload_for_chunk(c) ==
    [id |-> c.chunk_id,
     checksum |-> str(py_or(get(c, "checksum"), PyStr("")))]

need_ids(fetched, existing) ==
    {c.chunk_id : c \in {x \in fetched :
        existing_get(existing, x.chunk_id) # str(get(x, "checksum"))}}

stale_ids(fetched, existing) ==
    {cid \in DOMAIN existing : cid \notin {c.chunk_id : c \in fetched}}

EmbedRuns == IF embedLog = <<>> THEN 0 ELSE embedLog[Len(embedLog)].n

\* One run of run_one that embeds its single batch and returns; without
\* chunks it raises no_chunks.
embed_run_one ==
    /\ EmbedRuns < MaxEmbedRuns
    /\ chunks # {}
    /\ LET fetched == fetch_chunks_for_doc
           existing == get_existing_checksums
           need == need_ids(fetched, existing)
           stale == stale_ids(fetched, existing)
           pts == {_payload_for_chunk(c) : c \in {x \in fetched : x.chunk_id \in need}}
           after == {p \in points : p.id \notin (need \cup stale)} \cup pts
       IN  /\ points' = after
           /\ embedLog' = LastTwo(Append(embedLog,
                             [n |-> EmbedRuns + 1,
                              chunks |-> chunks,
                              upserted |-> Cardinality(pts),
                              deleted |-> Cardinality(stale),
                              points |-> after]))
    /\ UNCHANGED <<blocks, chunks, chunk_plans, kg_nodes, kg_edges,
                   ext, chk, kg, chunkLog, obs,
                   notPipeVars>>

\* ---- A reader of the document, concurrent with a stage's re-run ----
\* What the reader got (rows, and edges when it read the graph), next to
\* the set the running stage found (old) and the set it writes (new).
NoObs == [kind |-> "none", rows |-> {}, edges |-> {},
          old |-> {}, old_edges |-> {}, new |-> {}, new_edges |-> {}]

\* fetch_blocks_for_doc while extraction is replacing the blocks
ReadBlocks ==
    /\ ext.pc # "idle"
    /\ obs' = [NoObs EXCEPT !.kind = "blocks", !.rows = Range(blocks),
                            !.old = Range(ext.old), !.new = Range(ext.rows)]
    /\ UNCHANGED <<blocks, chunks, chunk_plans, kg_nodes, kg_edges, points,
                   ext, chk, kg, chunkLog, embedLog,
                   notPipeVars>>

\* a SELECT on chunks while chunking is replacing them
ReadChunks ==
    /\ chk.pc # "idle"
    /\ obs' = [NoObs EXCEPT !.kind = "chunks", !.rows = chunks,
                            !.old = chk.old, !.new = chk.rows]
    /\ UNCHANGED <<blocks, chunks, chunk_plans, kg_nodes, kg_edges, points,
                   ext, chk, kg, chunkLog, embedLog,
                   notPipeVars>>

\* a SELECT on kg_nodes and kg_edges while the graph is being replaced
ReadGraph ==
    /\ kg.pc # "idle"
    /\ obs' = [kind |-> "graph", rows |-> kg_nodes, edges |-> kg_edges,
               old |-> kg.old.nodes, old_edges |-> kg.old.edges,
               new |-> kg.nodes, new_edges |-> kg.edges]
    /\ UNCHANGED <<blocks, chunks, chunk_plans, kg_nodes, kg_edges, points,
                   ext, chk, kg, chunkLog, embedLog,
                   notPipeVars>>

PipeInit ==
    /\ blocks = <<>>
    /\ chunks = {}
    /\ chunk_plans = <<>>
    /\ kg_nodes = {}
    /\ kg_edges = {}
    /\ points = {}
    /\ ext = IdleExt
    /\ chk = IdleChk
    /\ kg = IdleKg
    /\ chunkLog = <<>>
    /\ embedLog = <<>>
    /\ obs = NoObs

NextPipe ==
    \/ \E texts \in BlockTexts : ExtractBuild(texts)
    \/ delete_blocks_for_doc
    \/ insert_blocks_bulk
    \/ insert_chunk_plan
    \/ delete_chunks_for_doc
    \/ insert_chunks_bulk
    \/ GraphBuild
    \/ ReplaceGraphDeleteEdges
    \/ ReplaceGraphDeleteNodes
    \/ ReplaceGraphInsertNodes
    \/ ReplaceGraphInsertEdges
    \/ embed_run_one
    \/ ReadBlocks
    \/ ReadChunks
    \/ ReadGraph

(***************************************************************************)
(* Retrieval and answering: services/retrieval.py, services/generation.py, *)
(* services/fact_lookup.py                                                 *)
(*                                                                         *)
(* The database and the vector index hold the documents of several         *)
(* tenants (documents.tenant_id, payload tenant_id); a service instance    *)
(* answers for the one tenant it was built with.  A chunk carries two      *)
(* facts about its text: whether it matches the query (vector similarity   *)
(* and full-text match) and whether it matches the terms the fact lookup   *)
(* scans for.  An invoices row is one the query's date range or invoice    *)
(* number selects.                                                         *)
(***************************************************************************)
MaxRDocs == 2
MaxRChunks == 2

Tenants == {"T1", "T2"}
RDocs == 1..MaxRDocs
RChunkIds == 1..MaxRChunks

NoResp == [tenant |-> "none", mode |-> "none", chunks |-> {}, docs |-> {},
           filter_docs |-> {}]

\* documents of the tenant, as the legs see them
TenantDocs(T) == {d \in RDocs : docTenant[d] = T}

ChunkDoc(cid) == (CHOOSE c \in rchunks : c.chunk_id = cid).doc_id

\* ---- what the stores hold ----
\* a document stored for a tenant (ingestion under that tenant's service)
StoreDocument(T, d) ==
    /\ docTenant[d] = "none"
    /\ docTenant' = [docTenant EXCEPT ![d] = T]
    /\ UNCHANGED <<rchunks, invoices, resp, notRetrVars>>

\* a chunk of a stored document, chunked and embedded (the point's payload
\* carries the tenant_id of the service that embedded it)
StoreChunk(d, match, fact) ==
    /\ docTenant[d] # "none"
    /\ Cardinality(rchunks) < MaxRChunks
    /\ rchunks' = rchunks \cup
          {[chunk_id |-> Cardinality(rchunks) + 1, doc_id |-> d,
            match |-> match, fact |-> fact]}
    /\ UNCHANGED <<docTenant, invoices, resp, notRetrVars>>

\* upsert_invoice: the structured extractor's row for a document
upsert_invoice(d) ==
    /\ docTenant[d] # "none"
    /\ d \notin invoices
    /\ invoices' = invoices \cup {d}
    /\ UNCHANGED <<docTenant, rchunks, resp, notRetrVars>>

\* ---- the query paths ----
\* find_invoice_doc_ids_between / find_invoice_doc_ids_by_number_like:
\* SELECT invoice_id FROM invoices WHERE ... (no tenant predicate)
find_invoice_doc_ids == invoices

\* the doc_ids filter search() ends up with
EnrichedDocIds(enrich) == IF enrich THEN find_invoice_doc_ids ELSE {}

InDocFilter(c, doc_ids) == doc_ids = {} \/ c.doc_id \in doc_ids

\* vector_search: SearchFilter(tenant_id=self.tenant_id, doc_ids=...)
vector_search(T, doc_ids) ==
    {c \in rchunks : c.match /\ docTenant[c.doc_id] = T /\ InDocFilter(c, doc_ids)}

\* keyword_search_chunks(..., tenant_id=self.tenant_id): d.tenant_id = %s
keyword_search_chunks(T, doc_ids) ==
    {c \in rchunks : c.match /\ docTenant[c.doc_id] = T /\ InDocFilter(c, doc_ids)}

\* the rows of _safety_net's SELECT: WHERE TRUE AND d.state != 'DELETED'
\* and the doc_ids filter
SafetyNetRows(doc_ids) ==
    {c \in rchunks : InDocFilter(c, doc_ids)}

\* _scan_chunks with no doc_ids: chunks whose text ILIKE any of the terms
_scan_chunks == {c \in rchunks : c.fact}

\* RetrievalService.search.  Fusion, rerank, MMR and the per-document cap
\* order and drop candidates; they add none and leave one whenever there
\* is one.  _safety_net reads its dict rows by position (r[0]), which
\* raises KeyError as soon as there is a row.
search(T, hybrid, enrich) ==
    LET doc_ids == EnrichedDocIds(enrich)
        v == vector_search(T, doc_ids)
        kw == keyword_search_chunks(T, doc_ids)
        results == IF hybrid THEN v \cup kw ELSE v
    IN  IF hybrid /\ results = {} /\ SafetyNetRows(doc_ids) # {}
        THEN [tenant |-> T, mode |-> "error", chunks |-> {}, docs |-> {},
              filter_docs |-> {}]
        ELSE [tenant |-> T, mode |-> IF hybrid THEN "hybrid" ELSE "vector",
              chunks |-> {c.chunk_id : c \in results},
              docs |-> {c.doc_id : c \in results},
              filter_docs |-> doc_ids]

\* POST /search
Query(T, hybrid, enrich) ==
    /\ resp' = search(T, hybrid, enrich)
    /\ UNCHANGED <<docTenant, rchunks, invoices, notRetrVars>>

\* GenerationService.answer with a plan of intent FACT_LOOKUP and fact kind
\* invoice_total: the invoices row first (LIMIT 1), then the chunk scan;
\* either one answers with confidence above fact_conf_min.  When neither
\* finds anything the answer comes from search().
AnswerFactLookup(T) ==
    /\ \/ /\ invoices # {}
          /\ \E d \in invoices :
                resp' = [tenant |-> T, mode |-> "fact", chunks |-> {},
                         docs |-> {d}, filter_docs |-> {}]
       \/ /\ invoices = {}
          /\ _scan_chunks # {}
          /\ \E ch \in _scan_chunks :
                resp' = [tenant |-> T, mode |-> "fact",
                         chunks |-> {ch.chunk_id}, docs |-> {ch.doc_id},
                         filter_docs |-> {}]
       \/ /\ invoices = {}
          /\ _scan_chunks = {}
          /\ resp' = search(T, TRUE, FALSE)
    /\ UNCHANGED <<docTenant, rchunks, invoices, notRetrVars>>

RetrInit ==
    /\ docTenant = [d \in RDocs |-> "none"]
    /\ rchunks = {}
    /\ invoices = {}
    /\ resp = NoResp

NextRetr ==
    \/ \E T \in Tenants, d \in RDocs : StoreDocument(T, d)
    \/ \E d \in RDocs, match \in BOOLEAN, fact \in BOOLEAN : StoreChunk(d, match, fact)
    \/ \E d \in RDocs : upsert_invoice(d)
    \/ \E T \in Tenants, hybrid \in BOOLEAN, enrich \in BOOLEAN : Query(T, hybrid, enrich)
    \/ \E T \in Tenants : AnswerFactLookup(T)

(***************************************************************************)
(* POST /answer_stream: the streamer coroutine of api/answer.py and the    *)
(* thread that feeds it the model's tokens                                 *)
(*                                                                         *)
(* One request.  events is what the response body has carried, one entry   *)
(* per server-sent event, by its "type".  In token mode a daemon thread    *)
(* iterates the provider's stream and hands each token to the event loop,  *)
(* which puts it on an asyncio.Queue; the streamer takes them off.  The    *)
(* client may go away at any await of the streamer, which raises           *)
(* CancelledError there.                                                   *)
(***************************************************************************)
MaxTokens == 3

IdleStreamer == [pc |-> "idle", mode |-> "none", left |-> 0,
                 cancelled |-> FALSE, at_cancel |-> 0]

NoThread == [pc |-> "none", left |-> 0, after_cancel |-> 0]

\* yield f"data: {...}\n\n"
Yield(type) == events' = Append(events, type)

\* streamer, lines 43-51: the mode is token streaming when
\* settings.gen_stream_tokens is set and the provider has a client
StreamRequest(flag, has_client) ==
    /\ strm.pc = "idle"
    /\ strm' = IF flag /\ has_client
               THEN [strm EXCEPT !.pc = "prep", !.mode = "token"]
               ELSE [strm EXCEPT !.pc = "answer", !.mode = "fallback"]
    /\ UNCHANGED <<events, sq, prod, notStreamVars>>

\* the generic handler: except Exception as e: yield the error event
StreamError ==
    /\ Yield("error")
    /\ strm' = [strm EXCEPT !.pc = "closed"]

\* token mode: prepare_for_stream, the first meta event, and the start of
\* the thread _run_stream over a stream that has n tokens to give.
\* prepare_for_stream raises when retrieval does.
prepare_for_stream(ok, n) ==
    /\ strm.pc = "prep"
    /\ IF ok
       THEN /\ Yield("meta")
            /\ strm' = [strm EXCEPT !.pc = "loop"]
            /\ prod' = [pc |-> "running", left |-> n, after_cancel |-> 0]
       ELSE /\ StreamError
            /\ UNCHANGED prod
    /\ UNCHANGED <<sq, notStreamVars>>

\* _run_stream, one turn of its for loop: the provider yields a token and
\* the thread schedules queue.put_nowait(tok).  Nothing in the loop looks
\* at the state of the streamer.
_run_stream_token ==
    /\ prod.pc = "running"
    /\ prod.left > 0
    /\ sq' = Append(sq, "tok")
    /\ prod' = [prod EXCEPT !.left = @ - 1,
                            !.after_cancel = IF strm.cancelled THEN @ + 1 ELSE @]
    /\ UNCHANGED <<events, strm, notStreamVars>>

\* _run_stream leaving its loop: the stream is exhausted, or the provider
\* failed midway (LLMProvider.stream swallows the exception and ends, and
\* _run_stream has its own except: pass).  finally: put None.
_run_stream_end(failed) ==
    /\ prod.pc = "running"
    /\ failed \/ prod.left = 0
    /\ sq' = Append(sq, "None")
    /\ prod' = [prod EXCEPT !.pc = "ended"]
    /\ UNCHANGED <<events, strm, notStreamVars>>

\* the streamer's while loop: part = await queue.get(); None ends the
\* loop, anything else is a chunk event
queue_get ==
    /\ strm.pc = "loop"
    /\ sq # <<>>
    /\ sq' = Tail(sq)
    /\ IF Head(sq) = "None"
       THEN /\ strm' = [strm EXCEPT !.pc = "cite"]
            /\ UNCHANGED events
       ELSE /\ Yield("chunk")
            /\ UNCHANGED strm
    /\ UNCHANGED <<prod, notStreamVars>>

\* after the loop: process_citations and the final meta event
FinalMeta ==
    /\ strm.pc = "cite"
    /\ Yield("meta")
    /\ strm' = [strm EXCEPT !.pc = "finish"]
    /\ UNCHANGED <<sq, prod, notStreamVars>>

\* fallback mode: gen.answer, then one meta event with the answer's
\* citations; the answer text makes n pieces of stream_chunk_chars
FallbackAnswer(ok, n) ==
    /\ strm.pc = "answer"
    /\ IF ok
       THEN /\ Yield("meta")
            /\ strm' = [strm EXCEPT !.pc = "pieces", !.left = n]
       ELSE StreamError
    /\ UNCHANGED <<sq, prod, notStreamVars>>

\* fallback mode: for i in range(0, len(text), chunk): yield a chunk event
FallbackChunk ==
    /\ strm.pc = "pieces"
    /\ strm.left > 0
    /\ Yield("chunk")
    /\ strm' = [strm EXCEPT !.left = @ - 1]
    /\ UNCHANGED <<sq, prod, notStreamVars>>

\* the done event, the last statement of either branch
YieldDone ==
    /\ \/ strm.pc = "finish"
       \/ strm.pc = "pieces" /\ strm.left = 0
    /\ Yield("done")
    /\ strm' = [strm EXCEPT !.pc = "closed"]
    /\ UNCHANGED <<sq, prod, notStreamVars>>

\* the client disconnects while the streamer is suspended:
\* except asyncio.CancelledError: return
ClientCancel ==
    /\ strm.pc \in {"loop", "cite", "finish", "pieces"}
    /\ strm' = [strm EXCEPT !.pc = "closed", !.cancelled = TRUE,
                            !.at_cancel = Len(events)]
    /\ UNCHANGED <<events, sq, prod, notStreamVars>>

StreamInit ==
    /\ events = <<>>
    /\ sq = <<>>
    /\ prod = NoThread
    /\ strm = IdleStreamer

NextStream ==
    \/ \E flag \in BOOLEAN, has_client \in BOOLEAN : StreamRequest(flag, has_client)
    \/ \E ok \in BOOLEAN, n \in 0..MaxTokens : prepare_for_stream(ok, n)
    \/ _run_stream_token
    \/ \E failed \in BOOLEAN : _run_stream_end(failed)
    \/ queue_get
    \/ FinalMeta
    \/ \E ok \in BOOLEAN, n \in 0..MaxTokens : FallbackAnswer(ok, n)
    \/ FallbackChunk
    \/ YieldDone
    \/ ClientCancel

(***************************************************************************)
(* Citations of an answer: GenerationService.answer, process_citations     *)
(* (services/generation.py) and pack_context (services/llm/context.py)     *)
(*                                                                         *)
(* An answer text is a sequence of pieces: footnote markers "[^n]" and     *)
(* other text.  The model's reply is what the LLM gives, which nothing     *)
(* constrains: any text, any list of citation numbers.                     *)
(***************************************************************************)
MaxSources == 2
MaxCiteN == 3
MaxPieces == 2
MaxCites == 2

CiteNums == 1..MaxCiteN

Marker(n) == "[^" \o ToString(n) \o "]"

Pieces == {Marker(n) : n \in CiteNums} \cup {"text", "(text)"}

SeqsOf(S, k) == UNION {[1..m -> S] : m \in 0..k}

AnswerTexts == SeqsOf(Pieces, MaxPieces)
CiteLists == SeqsOf(CiteNums, MaxCites)

\* the n of the markers that appear in a text
MarkersOf(text) ==
    {n \in CiteNums : \E i \in 1..Len(text) : text[i] = Marker(n)}

\* the piece has one of the characters ^ ( \ d + )
HasClassChar(p) == p # "text"

\* _extract_cite_nums: re.finditer(r"[\^(\\d+)]", s) is a character class,
\* so it matches single characters and has no group 1: with a match,
\* m.group(1) raises IndexError and the except returns []; without one
\* the list is empty.
_extract_cite_nums(s) ==
    IF \E i \in 1..Len(s) : HasClassChar(s[i])
    THEN <<>>
    ELSE <<>>

\* pack_context: the footnotes are numbered 1..N in packing order
pack_context(N) == [i \in 1..N |-> i]

Filter(s, S) ==
    LET in_S(n) == n \in S
    IN  SelectSeq(s, in_S)

FirstTwo(s) == SubSeq(s, 1, IF Len(s) < 2 THEN Len(s) ELSE 2)

\* process_citations: the n of the citations it returns, in order
process_citations(answer_text, all_footnotes, parsed_citations) ==
    LET fn == {all_footnotes[i] : i \in 1..Len(all_footnotes)}
        parsed == IF parsed_citations = <<>>
                  THEN Filter(_extract_cite_nums(answer_text), fn)
                  ELSE parsed_citations
    IN  Filter(parsed, fn)

\* parsed_empty: the reply came without citations, so the repair step ran;
\* hinted: the computed total and its marker were put before the text
NoAnswer == [mode |-> "none", n_sources |-> 0, answer |-> <<>>,
             citations |-> <<>>, parsed_empty |-> FALSE, hinted |-> FALSE]

\* GenerationService.answer on the rag path, from pack_context on.
\* parsed_ok: the reply parses against OUT_SCHEMA (at the first or the
\* second attempt).  hint: the query is NUMERIC_TOTAL, the context sums to
\* a total and the answer has no number in it.
answer(N, parsed_ok, text, cites, hint) ==
    LET footnotes == pack_context(N)
        fn == {footnotes[i] : i \in 1..N}
        parsed0 == IF parsed_ok
                   THEN [answer |-> text, citations |-> cites]
                   ELSE [answer |-> <<"text">>,
                         citations |-> FirstTwo(footnotes)]
        nums == _extract_cite_nums(parsed0.answer)
        repaired == IF parsed0.citations # <<>> THEN parsed0.citations
                    ELSE IF nums # <<>> /\ Filter(nums, fn) # <<>>
                         THEN Filter(nums, fn)
                         ELSE FirstTwo(footnotes)
        answer1 == IF hint THEN <<Marker(1)>> \o parsed0.answer
                   ELSE parsed0.answer
        citations1 == IF hint /\ repaired = <<>> THEN <<1>> ELSE repaired
    IN  [mode |-> "rag", n_sources |-> N, answer |-> answer1,
         citations |-> process_citations(answer1, footnotes, citations1),
         parsed_empty |-> (parsed0.citations = <<>>), hinted |-> hint]

\* POST /answer
Answer(N, parsed_ok, text, cites, hint) ==
    /\ hint => N >= 1 /\ MarkersOf(text) = {}
    /\ ans' = answer(N, parsed_ok, text, cites, hint)
    /\ UNCHANGED notGenVars

\* POST /answer_stream in token mode: the text is what the stream gave and
\* the final meta event carries process_citations(text, footnotes, None)
AnswerStreamed(N, text) ==
    /\ ans' = [mode |-> "stream", n_sources |-> N, answer |-> text,
               citations |-> process_citations(text, pack_context(N), <<>>),
               parsed_empty |-> FALSE, hinted |-> FALSE]
    /\ UNCHANGED notGenVars

GenInit == ans = NoAnswer

NextGen ==
    \/ \E N \in 0..MaxSources, parsed_ok \in BOOLEAN, text \in AnswerTexts,
          cites \in CiteLists, hint \in BOOLEAN :
            Answer(N, parsed_ok, text, cites, hint)
    \/ \E N \in 0..MaxSources, text \in AnswerTexts : AnswerStreamed(N, text)

(***************************************************************************)
(* The circuit breaker around the vector index call:                       *)
(* RetrievalService._execute_vector_search and vector_search               *)
(* (services/retrieval.py)                                                 *)
(*                                                                         *)
(* @circuit(failure_threshold=5, recovery_timeout=30) keeps one breaker    *)
(* for the decorated function: a count of failures in a row, a state and   *)
(* the time it opened.  A call while it is open raises                     *)
(* CircuitBreakerError without running the function; once recovery_timeout *)
(* seconds have passed the next call runs, and its outcome closes the      *)
(* breaker or opens it again.  Time advances in steps of TickStep seconds. *)
(***************************************************************************)
failure_threshold == 5
recovery_timeout == 30

TickStep == 10
MaxNow == 60

ClosedBreaker == [state |-> "closed", failure_count |-> 0, opened |-> 0]

NoVectorCall == [kind |-> "none", called |-> FALSE, warn |-> FALSE,
                 empty |-> FALSE, was_open |-> FALSE, recovered |-> FALSE,
                 turned_away |-> FALSE]

\* the decorator's test before the call: the breaker is open and
\* recovery_timeout has not passed since it opened
BreakerRejectsAlways(b, t) == b.state = "open"

BreakerRejects(b, t) ==
    b.state = "open" /\ t - b.opened < recovery_timeout

\* the breaker after a call that raised
call_failed(b, t) ==
    IF b.failure_count + 1 >= failure_threshold
    THEN [state |-> "open", failure_count |-> b.failure_count + 1, opened |-> t]
    ELSE [b EXCEPT !.failure_count = @ + 1]

\* the breaker after a call that returned
call_succeeded(b) == ClosedBreaker

\* the claim's own account of "open": failure_threshold index calls failed
\* in a row and the last of them is less than recovery_timeout ago
OpenNow == consec >= failure_threshold /\ now - lastTrip < recovery_timeout

Tick ==
    /\ now + TickStep <= MaxNow
    /\ now' = now + TickStep
    /\ UNCHANGED <<brk, vs, consec, lastTrip, notBreakerVars>>

\* vector_search: the query is embedded, then _execute_vector_search runs
\* under the breaker; any exception, CircuitBreakerError included, ends in
\* a WARN event and an empty result.
breaker_vector_search(embed_ok, index_ok, hits) ==
    LET was_open == OpenNow
        recovered == consec >= failure_threshold /\ ~OpenNow
    IN
    IF ~embed_ok
    THEN /\ vs' = [kind |-> "skipped", called |-> FALSE, warn |-> TRUE,
                   empty |-> TRUE, was_open |-> was_open,
                   recovered |-> recovered,
                   turned_away |-> vs.turned_away]
         /\ UNCHANGED <<brk, now, consec, lastTrip, notBreakerVars>>
    ELSE IF BreakerRejects(brk, now)
    THEN /\ vs' = [kind |-> "rejected", called |-> FALSE, warn |-> TRUE,
                   empty |-> TRUE, was_open |-> was_open,
                   recovered |-> recovered,
                   turned_away |-> TRUE]
         /\ UNCHANGED <<brk, now, consec, lastTrip, notBreakerVars>>
    ELSE IF index_ok
    THEN /\ vs' = [kind |-> "ok", called |-> TRUE, warn |-> FALSE,
                   empty |-> ~hits, was_open |-> was_open,
                   recovered |-> recovered,
                   turned_away |-> FALSE]
         /\ brk' = call_succeeded(brk)
         /\ consec' = 0
         /\ UNCHANGED <<now, lastTrip, notBreakerVars>>
    ELSE /\ vs' = [kind |-> "fail", called |-> TRUE, warn |-> TRUE,
                   empty |-> TRUE, was_open |-> was_open,
                   recovered |-> recovered,
                   turned_away |-> vs.turned_away]
         /\ brk' = call_failed(brk, now)
         /\ consec' = consec + 1
         /\ lastTrip' = IF consec + 1 >= failure_threshold THEN now
                        ELSE lastTrip
         /\ UNCHANGED <<now, notBreakerVars>>

BreakerInit ==
    /\ brk = ClosedBreaker
    /\ now = 0
    /\ vs = NoVectorCall
    /\ consec = 0
    /\ lastTrip = 0

NextBreaker ==
    \/ Tick
    \/ \E embed_ok \in BOOLEAN, index_ok \in BOOLEAN, hits \in BOOLEAN :
          breaker_vector_search(embed_ok, index_ok, hits)

(***************************************************************************)
(* Embedding with failures: EmbeddingService.run_one                       *)
(* (services/embedder.py) against a vector index whose calls can fail      *)
(*                                                                         *)
(* The checksum lookup can fail (run_one goes on with existing = {}), a    *)
(* batch can fail to embed or to upsert (run_one raises, the batches       *)
(* before it stay upserted) and the delete of the stale points can fail    *)
(* (logged, run_one goes on).  Batches follow the chunks' span_start.      *)
(***************************************************************************)
MaxEmbedAttempts == 3

NoEmbedRun == [n |-> 0, clean |-> FALSE, failed_before |-> FALSE,
               chunks |-> {}, points |-> {}, pts |-> {}]

\* one element of pts in run_one: the point's id and its payload
point_for_chunk(c) ==
    [id |-> c.chunk_id,
     payload |-> [chunk_id |-> c.chunk_id,
                  checksum |-> _payload_for_chunk(c).checksum]]

\* the chunks whose batch was upserted before run_one raised: those whose
\* span_start is at most upto
batches_done(need_chunks, upto) == {c \in need_chunks : c.span_start <= upto}

\* run_one with the outcome of each call on the index
embedder_run_one(lookup_ok, upto, delete_ok) ==
    /\ erun.n < MaxEmbedAttempts
    /\ chunks # {}
    /\ LET fetched == fetch_chunks_for_doc
           existing == IF lookup_ok THEN get_existing_checksums ELSE << >>
           need == need_ids(fetched, existing)
           stale == stale_ids(fetched, existing)
           need_chunks == {x \in fetched : x.chunk_id \in need}
           done == batches_done(need_chunks, upto)
           raised == done # need_chunks
           deleted == IF raised \/ ~delete_ok THEN {} ELSE stale
           after == {p \in points : p.id \notin ({c.chunk_id : c \in done} \cup deleted)}
                      \cup {_payload_for_chunk(c) : c \in done}
           clean == lookup_ok /\ ~raised /\ (delete_ok \/ stale = {})
       IN  /\ points' = after
           /\ erun' = [n |-> erun.n + 1,
                       clean |-> clean,
                       failed_before |-> erun.failed_before \/ (erun.n > 0 /\ ~erun.clean),
                       chunks |-> chunks,
                       points |-> after,
                       pts |-> {point_for_chunk(c) : c \in done}]
    /\ UNCHANGED <<blocks, chunks, chunk_plans, kg_nodes, kg_edges, ext, chk, kg,
                   chunkLog, embedLog, obs, notPipeOrEmbedVars>>

EmbedInit == erun = NoEmbedRun

NextEmbed ==
    \/ \E texts \in BlockTexts : ExtractBuild(texts)
    \/ delete_blocks_for_doc
    \/ insert_blocks_bulk
    \/ insert_chunk_plan
    \/ delete_chunks_for_doc
    \/ insert_chunks_bulk
    \/ \E lookup_ok \in BOOLEAN, upto \in 0..MaxBlocks, delete_ok \in BOOLEAN :
          embedder_run_one(lookup_ok, upto, delete_ok)

(***************************************************************************)
(* Stages that raise: ingest_index._process (api/pipeline.py) over the     *)
(* stage services' run_one / build                                         *)
(*                                                                         *)
(* _process calls the five stages in order for a stored document.  Each    *)
(* stage has statements that can raise something the stage did not plan    *)
(* for (the object store, the database or the vector index failing); the   *)
(* places below are those statements, with what the stage's own code does  *)
(* about the exception there.                                              *)
(***************************************************************************)
MaxStageDocs == 2

StageDocIds == 1..MaxStageDocs

\* the statements of a stage that can raise
RaisePoints(stage) ==
    CASE stage = "Normalize" -> {"fget_to_tmp", "parse"}
      [] stage = "Extract"   -> {"insert_blocks_bulk"}
      [] stage = "Chunk"     -> {"insert_chunks_bulk"}
      [] stage = "Graph"     -> {"replace_graph"}
      [] stage = "Embed"     -> {"embed_batch", "upsert_points"}

\* the FAIL event the stage itself records for an exception at the point:
\* NormalizationService.run_one has an except around everything after
\* fget_to_tmp, EmbeddingService.run_one has one around the embedding of a
\* batch, and nothing else is inside a try.
StageFailEvent(point) ==
    CASE point = "parse"       -> {"DOC_NORMALIZED_FAIL"}
      [] point = "embed_batch" -> {"EMBED_BATCH_FAIL"}
      [] OTHER                 -> {}

\* the FAIL event of _process's except branch:
\* db.insert_event(tenant_id, ..., PIPELINE_ASYNC_FAIL), which raises
\* NameError instead when tenant_id is not bound
ProcessFailEvent ==
    IF PipelineTenantIdBound THEN {"PIPELINE_ASYNC_FAIL"} ELSE {}

\* documents.state as the stages leave it: update_document_state is called
\* by normalization (NORMALIZED) and extraction (EXTRACTED) only
StateAfterStage(stage, state) ==
    CASE stage = "Normalize" -> "NORMALIZED"
      [] stage = "Extract"   -> "EXTRACTED"
      [] OTHER               -> state

StoredDoc == [state |-> "STORED", completed |-> 0, raised |-> "none",
              fail_events |-> {}]

\* the next stage of the document returns
StageReturns(d) ==
    /\ pd[d].raised = "none"
    /\ pd[d].completed < Len(BackgroundStages)
    /\ LET stage == BackgroundStages[pd[d].completed + 1]
       IN  pd' = [pd EXCEPT ![d].completed = @ + 1,
                            ![d].state = StateAfterStage(stage, @)]
    /\ UNCHANGED notStageVars

\* the next stage of the document raises at one of its statements, and
\* _process's except branch runs
StageRaises(d, point) ==
    /\ pd[d].raised = "none"
    /\ pd[d].completed < Len(BackgroundStages)
    /\ point \in RaisePoints(BackgroundStages[pd[d].completed + 1])
    /\ pd' = [pd EXCEPT ![d].raised = point,
                        ![d].fail_events = StageFailEvent(point) \cup ProcessFailEvent]
    /\ UNCHANGED notStageVars

AllRaisePoints == UNION {RaisePoints(AllStages[i]) : i \in 1..Len(AllStages)}

StageInit == pd = [d \in StageDocIds |-> StoredDoc]

NextStage ==
    \/ \E d \in StageDocIds : StageReturns(d)
    \/ \E d \in StageDocIds, point \in AllRaisePoints : StageRaises(d, point)

(***************************************************************************)
(* Per-file policy checks of _process_one (services/ingestion.py)          *)
(*                                                                         *)
(* A file is checked for filename length, extension, size and MIME type,   *)
(* in that order, before the dedupe lookup.  strict_mode is a setting of   *)
(* the service; the documents table outlives the service, so uploads made  *)
(* under either setting meet the same documents.  Files here are not       *)
(* empty (an empty file is rejected under either setting).                 *)
(***************************************************************************)
MaxPolUploads == 2
MaxPolShas == 2

PolUploads == 1..MaxPolUploads
PolShas == 1..MaxPolShas

\* the checks in the order _process_one makes them
PolicyOrder == <<"DOC_REJECTED_FILENAME_LEN", "DOC_REJECTED_EXTENSION",
                 "DOC_REJECTED_OVERSIZE", "DOC_REJECTED_MIME">>

PolicyKinds == {PolicyOrder[i] : i \in 1..Len(PolicyOrder)}

\* the first check of the order that the file violates
FirstViolation(viol) ==
    PolicyOrder[CHOOSE i \in 1..Len(PolicyOrder) :
                   /\ PolicyOrder[i] \in viol
                   /\ \A j \in 1..(i - 1) : PolicyOrder[j] \notin viol]

NoPolItem == [doc_id |-> 0, state |-> "NONE", duplicate |-> FALSE,
              warnings |-> {}]

IdlePol == [pc |-> "idle", sha |-> 0, viol |-> {}, strict |-> FALSE,
            item |-> NoPolItem]

\* the item of a strict-mode rejection: the first violated check returns
RejectedItem(kind) == [doc_id |-> 0, state |-> "REJECTED",
                       duplicate |-> FALSE, warnings |-> {kind}]

\* the item of the dedupe branch: warnings=[]
DuplicateItem(existing_doc) == [doc_id |-> existing_doc, state |-> "STORED",
                                duplicate |-> TRUE, warnings |-> {}]

\* the item of a stored file: warnings = file_warnings + warnings, where
\* file_warnings holds one entry per violated check
StoredItem(doc_id, file_warnings) ==
    [doc_id |-> doc_id, state |-> "STORED", duplicate |-> FALSE,
     warnings |-> file_warnings]

\* the checks that get to insert their WARN event: in strict mode the
\* first violated check returns, otherwise every violated check records
WarnEvents(viol, strict) ==
    IF viol = {} THEN {}
    ELSE IF strict THEN {FirstViolation(viol)}
    ELSE viol

\* _process_one for a file with content sha that violates the checks in
\* viol, under strict_mode = strict
_process_one(u, sha, viol, strict) ==
    /\ pol[u].pc = "idle"
    /\ pevents' = pevents \cup {<<u, k>> : k \in WarnEvents(viol, strict)}
    /\ LET existing_doc == pdocs[sha]
           doc_id == 1 + Cardinality({s \in PolShas : pdocs[s] # 0})
           item == IF strict /\ viol # {}
                   THEN RejectedItem(FirstViolation(viol))
                   ELSE IF existing_doc # 0
                   THEN DuplicateItem(existing_doc)
                   ELSE StoredItem(doc_id, viol)
       IN  /\ pol' = [pol EXCEPT ![u] = [pc |-> "done", sha |-> sha,
                                         viol |-> viol, strict |-> strict,
                                         item |-> item]]
           /\ pdocs' = IF item.state = "STORED" /\ ~item.duplicate
                       THEN [pdocs EXCEPT ![sha] = doc_id]
                       ELSE pdocs
    /\ UNCHANGED notPolicyVars

PolicyInit ==
    /\ pdocs = [s \in PolShas |-> 0]
    /\ pol = [u \in PolUploads |-> IdlePol]
    /\ pevents = {}

NextPolicy ==
    \E u \in PolUploads, sha \in PolShas, viol \in SUBSET PolicyKinds,
       strict \in BOOLEAN : _process_one(u, sha, viol, strict)

(***************************************************************************)
(* The per-document cap of RetrievalService.search (services/retrieval.py) *)
(*                                                                         *)
(* A hit is told by the document it belongs to: a result list is the       *)
(* sequence of the doc_ids of its hits, best first.                        *)
(***************************************************************************)
doc_cap_per_doc == 3
MaxHits == 4
MaxK == 4

CapDocs == {1, 2}
HitLists == UNION {[1..n -> CapDocs] : n \in 0..MaxHits}

NoSearch == [mode |-> "none", k |-> 0, results |-> <<>>]

Take(s, n) == SubSeq(s, 1, IF Len(s) < n THEN Len(s) ELSE n)

CountOf(s, d) == Cardinality({i \in 1..Len(s) : s[i] = d})

\* the loop over the MMR results: a hit is skipped when its document has
\* cap hits in final_results already, and the loop ends at k hits
RECURSIVE cap_loop(_, _, _)
cap_loop(results, final_results, k) ==
    IF results = <<>> \/ Len(final_results) >= k THEN final_results
    ELSE LET r == Head(results)
         IN  IF CountOf(final_results, r) >= doc_cap_per_doc
             THEN cap_loop(Tail(results), final_results, k)
             ELSE cap_loop(Tail(results), Append(final_results, r), k)

\* _expand_context_window: the first five hits get the text of their
\* neighbours stitched on; the list keeps its hits and their order
_expand_context_window(hits) == Take(hits, 5) \o SubSeq(hits, 6, Len(hits))

\* search(hybrid=False): the hits of vector_search (the index hits and the
\* graph neighbours, sorted, not sliced) after window expansion
search_vector(k, vec_hits) ==
    /\ cres' = [mode |-> "vector", k |-> k,
                results |-> _expand_context_window(vec_hits)]
    /\ UNCHANGED notCapVars

\* search(hybrid=True): candidates are the fused and reranked hits in the
\* order _mmr picks them; _mmr keeps 2k, the cap loop follows.  With
\* nothing left the safety net reads the longest chunks: with rows it
\* raises (the rows are dicts and are read by position), without rows the
\* result is empty.
search_hybrid(k, candidates, net_rows) ==
    /\ LET results == cap_loop(Take(candidates, 2 * k), <<>>, k)
       IN  cres' = IF results = <<>> /\ net_rows # <<>>
                   THEN [mode |-> "error", k |-> k, results |-> <<>>]
                   ELSE [mode |-> "hybrid", k |-> k,
                         results |-> _expand_context_window(results)]
    /\ UNCHANGED notCapVars

CapInit == cres = NoSearch

NextCap ==
    \/ \E k \in 1..MaxK, vec_hits \in HitLists : search_vector(k, vec_hits)
    \/ \E k \in 1..MaxK, candidates \in HitLists, net_rows \in HitLists :
          search_hybrid(k, candidates, net_rows)

(***************************************************************************)
(* ChunkingService.run_one: the choice of strategy and the tiny strategy   *)
(* (services/chunking.py)                                                  *)
(*                                                                         *)
(* A block is told by its type and the length of its text.  Extraction     *)
(* strips the text of a block and drops a block without text, unless it    *)
(* is an image: an image without alt text or caption is stored with the    *)
(* empty text.  So a stored text is blank exactly when it is empty.        *)
(***************************************************************************)
MaxTinyBlocks == 2
MaxOtherRows == 2
tiny_doc_chars == 600

BlockTypes == {"paragraph", "table", "image"}
CharVals == {0, 200, 400}

\* the blocks extraction can store
StoredBlocks ==
    {b \in [type : BlockTypes, chars : CharVals] :
        b.chars = 0 => b.type = "image"}

BlockLists == UNION {[1..n -> StoredBlocks] : n \in 0..MaxTinyBlocks}

RECURSIVE SumChars(_)
SumChars(bs) == IF bs = <<>> THEN 0 ELSE Head(bs).chars + SumChars(Tail(bs))

IsTable(b) == b.type = "table"
NonBlank(b) == b.chars > 0

\* run_one: strategy from total_chars and the table blocks
strategy_of(bs) ==
    LET total_chars == SumChars(bs)
        table_blocks == SelectSeq(bs, IsTable)
        table_chars == SumChars(table_blocks)
        tiny_doc == total_chars < tiny_doc_chars
        has_table == Len(table_blocks) > 0
    IN  IF has_table THEN "layout"
        ELSE IF tiny_doc THEN "tiny"
        ELSE IF total_chars # 0 /\ 4 * table_chars >= total_chars
             THEN "layout"
        ELSE "section"

\* a tiny strategy that makes one row of every non-blank block
_make_tiny_per_block(bs) == Len(SelectSeq(bs, NonBlank))

\* _make_tiny: the number of rows it returns: none when every block is
\* blank, else one row of all the non-blank blocks
_make_tiny(bs) ==
    LET nonempty == SelectSeq(bs, NonBlank)
    IN  IF nonempty = <<>> THEN 0 ELSE 1

NoTinyRun == [pc |-> "none", blocks |-> <<>>, strategy |-> "none",
              inserted |-> 0]

\* run_one(doc_id) over the blocks bs.  Without blocks it raises
\* no_blocks.  The rows of the layout and section strategies are not told
\* here: other_rows is any number of them.
chunk_run_one(bs, other_rows) ==
    /\ tdoc' = IF bs = <<>>
               THEN [pc |-> "raised", blocks |-> bs, strategy |-> "none",
                     inserted |-> 0]
               ELSE [pc |-> "done", blocks |-> bs,
                     strategy |-> strategy_of(bs),
                     inserted |-> IF strategy_of(bs) = "tiny"
                                  THEN _make_tiny(bs)
                                  ELSE other_rows]
    /\ UNCHANGED notTinyVars

TinyInit == tdoc = NoTinyRun

NextTiny ==
    \E bs \in BlockLists, other_rows \in 0..MaxOtherRows :
        chunk_run_one(bs, other_rows)

(***************************************************************************)
(* Narrative packing: _pack_narrative, _split_long_segment, _hard_slice    *)
(* (services/chunking.py)                                                  *)
(*                                                                         *)
(* A text is told by its token count, taken as additive over its pieces    *)
(* (_tok_count without a tokenizer is a quarter of the length).  A         *)
(* segment is given as the sequence of the parts that the first separator  *)
(* found in it splits it into; a segment of one part has no separator.     *)
(* The segments are paragraphs.  Indexes count from 1.                     *)
(***************************************************************************)
target_tokens == 800
overlap_tokens == 120
tiny_tokens == 50
MaxSegs == 3

SegShapes == {<<46>>, <<751>>, <<900, 1>>, <<1700>>,
              <<751, 1, 1, 1, 46, 800>>}

SegLists == UNION {[1..n -> SegShapes] : n \in 1..MaxSegs}

RECURSIVE SumSeq(_)
SumSeq(s) == IF s = <<>> THEN 0 ELSE Head(s) + SumSeq(Tail(s))

\* _hard_slice: windows of 4 * target characters, the last one shorter
_hard_slice(n) ==
    [w \in 1..((n + target_tokens - 1) \div target_tokens) |->
        IF w * target_tokens <= n THEN target_tokens
        ELSE n - (w - 1) * target_tokens]

\* the atomic units of _split_long_segment: the parts of the first
\* separator that splits the text, or the hard slices of a text that no
\* separator splits
parts_of(seg) ==
    IF Len(seg) = 1 /\ seg[1] > target_tokens THEN _hard_slice(seg[1])
    ELSE seg

\* while j < len and toks_sum + tokens[j] <= target: j += 1
RECURSIVE window_end(_, _, _)
window_end(tokens, j, toks_sum) ==
    IF j <= Len(tokens) /\ toks_sum + tokens[j] <= target_tokens
    THEN window_end(tokens, j + 1, toks_sum + tokens[j])
    ELSE j

\* while k > i and back > 0: back -= tokens[k]; k -= 1
RECURSIVE back_off(_, _, _, _)
back_off(tokens, i, k, back) ==
    IF k > i /\ back > 0 THEN back_off(tokens, i, k - 1, back - tokens[k])
    ELSE k

\* a window start that follows the back-off wherever it ends
next_start_back(i, k) == k + 1

\* i = max(i + 1, k + 1)
next_start(i, k) == IF i + 1 > k + 1 THEN i + 1 ELSE k + 1

\* a row: merged holds the token counts of the rows merged into it (its
\* own first), content the parts whose text it has, as <<segment, part>>
Row(tokens, content) == [merged |-> <<tokens>>, content |-> content]

RowTokens(r) == SumSeq(r.merged)

IdlePack == [pc |-> "idle", segs |-> <<>>, i |-> 0, rows |-> <<>>,
             parts |-> <<>>, si |-> 0, srows |-> <<>>]

SegTokens(segs) == [s \in 1..Len(segs) |-> SumSeq(segs[s])]

\* the outer loop of _pack_narrative at a segment above the target: the
\* call of _split_long_segment
PackLong ==
    /\ pk.pc = "pack"
    /\ SegTokens(pk.segs)[pk.i] > target_tokens
    /\ pk' = [pk EXCEPT !.pc = "split", !.parts = parts_of(pk.segs[pk.i]),
                        !.si = 1, !.srows = <<>>]
    /\ UNCHANGED notPackVars

\* one iteration of the loop of _split_long_segment; at its end the rows
\* go to _pack_narrative, which moves on by one segment
SplitIter ==
    /\ pk.pc = "split"
    /\ LET tokens == pk.parts
           i == pk.si
           j == window_end(tokens, i, 0)
           row == Row(SumSeq(SubSeq(tokens, i, j - 1)),
                      {<<pk.i, p>> : p \in i..(j - 1)})
           srows == Append(pk.srows, row)
           k == back_off(tokens, i, j - 1, overlap_tokens)
           si == next_start(i, k)
           ends == j > Len(tokens) \/ si > Len(tokens)
       IN  pk' = IF ends
                 THEN [pk EXCEPT !.rows = pk.rows \o srows,
                                 !.srows = <<>>, !.parts = <<>>, !.si = 0,
                                 !.i = pk.i + 1,
                                 !.pc = IF pk.i + 1 > Len(pk.segs)
                                        THEN "post" ELSE "pack"]
                 ELSE [pk EXCEPT !.srows = srows, !.si = si]
    /\ UNCHANGED notPackVars

\* one iteration of the outer loop of _pack_narrative at a segment that
\* fits: the window, its row, the overlap back-off
PackIter ==
    /\ pk.pc = "pack"
    /\ SegTokens(pk.segs)[pk.i] <= target_tokens
    /\ LET tokens == SegTokens(pk.segs)
           i == pk.i
           j == window_end(tokens, i, 0)
           row == Row(SumSeq(SubSeq(tokens, i, j - 1)),
                      {<<s, 1>> : s \in i..(j - 1)})
           overlap == IF tokens[i] > (7 * target_tokens) \div 10
                      THEN (3 * overlap_tokens) \div 2
                      ELSE overlap_tokens
           k == back_off(tokens, i, j - 1, overlap)
       IN  pk' = IF j > Len(tokens)
                 THEN [pk EXCEPT !.rows = Append(pk.rows, row),
                                 !.pc = "post"]
                 ELSE [pk EXCEPT !.rows = Append(pk.rows, row),
                                 !.i = next_start(i, k)]
    /\ UNCHANGED notPackVars

\* the post-pass: curr is merged into prev when curr has fewer than 50
\* tokens and prev fewer than 1.2 * target
RECURSIVE merge_rows(_, _, _)
merge_rows(prev, rest, merged_rows) ==
    IF rest = <<>> THEN Append(merged_rows, prev)
    ELSE LET curr == Head(rest)
         IN  IF /\ RowTokens(curr) < tiny_tokens
                /\ 5 * RowTokens(prev) < 6 * target_tokens
             THEN merge_rows([merged |-> prev.merged \o curr.merged,
                              content |-> prev.content \cup curr.content],
                             Tail(rest), merged_rows)
             ELSE merge_rows(curr, Tail(rest), Append(merged_rows, prev))

PostPass ==
    /\ pk.pc = "post"
    /\ pk' = [pk EXCEPT !.pc = "done",
                        !.rows = IF Len(pk.rows) > 1
                                 THEN merge_rows(Head(pk.rows),
                                                 Tail(pk.rows), <<>>)
                                 ELSE pk.rows]
    /\ UNCHANGED notPackVars

\* no call
PackIdle == pk = IdlePack

\* a call of _pack_narrative over segments
PackInit ==
    pk \in {[IdlePack EXCEPT !.pc = "pack", !.segs = segs, !.i = 1] :
              segs \in SegLists}

NextPack ==
    \/ PackLong
    \/ SplitIter
    \/ PackIter
    \/ PostPass

(***************************************************************************)
(* Soft delete and the state column of documents: soft_delete_doc          *)
(* (api/ui.py), smart_ingest (api/pipeline.py), update_document_state and  *)
(* find_doc_by_hash (infra/db.py)                                          *)
(*                                                                         *)
(* A document is told by its content: the unique index on (tenant_id,      *)
(* sha256) leaves one row per content.                                     *)
(***************************************************************************)
MaxDelDocs == 2
MaxDelTasks == 3

DelDocs == 1..MaxDelDocs
DelTasks == 1..MaxDelTasks

SmartStages == <<"Normalize", "Extract", "Chunk", "Graph", "Embed">>

NoProcess == [doc |-> 0, next |-> 0]

\* the state a stage writes with update_document_state, if it writes one
StateWrittenBy(stage) ==
    CASE stage = "Normalize" -> "NORMALIZED"
      [] stage = "Extract" -> "EXTRACTED"
      [] OTHER -> "same"

\* UPDATE documents SET state=%s WHERE doc_id=%s
update_document_state(d, state) ==
    dstate' = [dstate EXCEPT ![d] = state]

FreeTask == CHOOSE t \in DelTasks : dtask[t] = NoProcess

\* POST /ingest with one file of content d: store_many stores it, or finds
\* the row by find_doc_by_hash (which does not look at state) and answers
\* with that doc_id and state STORED; either way _process is registered
\* for the doc_id
smart_ingest(d) ==
    /\ \E t \in DelTasks : dtask[t] = NoProcess
    /\ dstate' = IF dstate[d] = "NONE" THEN [dstate EXCEPT ![d] = "STORED"]
                 ELSE dstate
    /\ dtask' = [dtask EXCEPT ![FreeTask] = [doc |-> d, next |-> 1]]
    /\ UNCHANGED notDeleteVars

\* DELETE /docs/{doc_id}: 404 without a row, else state DELETED
soft_delete_doc(d) ==
    /\ dstate[d] # "NONE"
    /\ dstate' = [dstate EXCEPT ![d] = "DELETED"]
    /\ UNCHANGED <<dtask, notDeleteVars>>

\* _process: the next stage of the task runs; a stage that raises ends
\* the task (SMART_INGEST_FAIL)
ProcessStage(t, ok) ==
    /\ dtask[t] # NoProcess
    /\ LET d == dtask[t].doc
           stage == SmartStages[dtask[t].next]
       IN  /\ IF ok /\ StateWrittenBy(stage) # "same"
              THEN update_document_state(d, StateWrittenBy(stage))
              ELSE UNCHANGED dstate
           /\ dtask' = [dtask EXCEPT ![t] =
                          IF ok /\ dtask[t].next < Len(SmartStages)
                          THEN [@ EXCEPT !.next = @ + 1]
                          ELSE NoProcess]
    /\ UNCHANGED notDeleteVars

DeleteInit ==
    /\ dstate = [d \in DelDocs |-> "NONE"]
    /\ dtask = [t \in DelTasks |-> NoProcess]

NextDelete ==
    \/ \E d \in DelDocs : smart_ingest(d)
    \/ \E d \in DelDocs : soft_delete_doc(d)
    \/ \E t \in DelTasks, ok \in BOOLEAN : ProcessStage(t, ok)

(***************************************************************************)
(* Graph expansion and the chunk cache: _get_chunk_cache and               *)
(* _graph_expand_hits (services/retrieval.py)                              *)
(*                                                                         *)
(* One document whose blocks stay as extracted.  A chunking run deletes    *)
(* the chunks of the document and inserts new ones with new ids, here one  *)
(* chunk per block.  The RetrievalService is made once at start-up and     *)
(* keeps _chunk_block_cache for as long as the process runs.               *)
(***************************************************************************)
MaxCacheBlocks == 3
MaxRechunks == 5

CacheBlocks == 1..MaxCacheBlocks

NoCache == [loaded |-> FALSE, block_to_chunk |-> [b \in CacheBlocks |-> 0]]

NoExpansion == [called |-> FALSE, ids |-> {}, store |-> {}]

\* ChunkingService.run_one: delete_chunks_for_doc, then insert_chunks_bulk
\* with fresh chunk ids
rechunk ==
    /\ cnext + MaxCacheBlocks <= (MaxRechunks * MaxCacheBlocks) + 1
    /\ cchunks' = [b \in CacheBlocks |-> cnext + b - 1]
    /\ cnext' = cnext + MaxCacheBlocks
    /\ UNCHANGED <<ccache, cexp, notCacheVars>>

\* _get_chunk_cache: the cached entry if there is one, else the chunks of
\* the document as fetch_chunks_for_doc gives them now
_get_chunk_cache(cache) ==
    IF cache.loaded THEN cache
    ELSE [loaded |-> TRUE, block_to_chunk |-> cchunks]

\* _graph_expand_hits for one base hit, a chunk of the store over block
\* hit_block, whose graph neighbours (fetch_graph_neighbors, read from the
\* store) are the blocks child_blocks: the chunks the cache has for them
_graph_expand_hits(hit_block, child_blocks) ==
    /\ cchunks[hit_block] # 0
    /\ child_blocks # {}
    /\ LET cache == _get_chunk_cache(ccache)
           seen == {cchunks[hit_block]}
           expanded == {cache.block_to_chunk[b] : b \in child_blocks}
                          \ (seen \cup {0})
       IN  /\ ccache' = cache
           /\ cexp' = [called |-> TRUE, ids |-> expanded,
                       store |-> {cchunks[b] : b \in CacheBlocks}]
    /\ UNCHANGED <<cchunks, cnext, notCacheVars>>

CacheInit ==
    /\ cchunks = [b \in CacheBlocks |-> 0]
    /\ cnext = 1
    /\ ccache = NoCache
    /\ cexp = NoExpansion

NextCache ==
    \/ rechunk
    \/ \E hit_block \in CacheBlocks, child_blocks \in SUBSET CacheBlocks :
          _graph_expand_hits(hit_block, child_blocks)

(***************************************************************************)
(* Two pipeline runs on one document: smart_ingest._process                *)
(* (api/pipeline.py) over ExtractionService and ChunkingService            *)
(*                                                                         *)
(* An ingest and a duplicate re-ingest each register _process for the      *)
(* same doc_id; background tasks run on the thread pool, so the two runs   *)
(* interleave.  They share one connection in autocommit mode: every        *)
(* statement is a transaction of its own.  Extraction gives the same       *)
(* DocBlockCount blocks each time, with new block ids; chunking makes one  *)
(* chunk per block it fetched.  The stages that write other tables are     *)
(* left out.                                                               *)
(***************************************************************************)
MaxRaceRuns == 2
DocBlockCount == 2

RaceRuns == 1..MaxRaceRuns
BlockIdx == 1..DocBlockCount

IdleRun == [pc |-> "idle", fetched |-> {}, plan_id |-> 0]

\* POST /ingest: _process is registered for the document
start_process(r) ==
    /\ qrun[r].pc = "idle"
    /\ qrun' = [qrun EXCEPT ![r].pc = "extract_delete"]
    /\ UNCHANGED <<qblocks, qchunks, notRaceVars>>

\* extraction: db.delete_blocks_for_doc(doc_id)
race_delete_blocks(r) ==
    /\ qrun[r].pc = "extract_delete"
    /\ qblocks' = {}
    /\ qrun' = [qrun EXCEPT ![r].pc = "extract_insert"]
    /\ UNCHANGED <<qchunks, notRaceVars>>

\* extraction: db.insert_blocks_bulk(blocks_rows), block ids from _new_id()
race_insert_blocks(r) ==
    /\ qrun[r].pc = "extract_insert"
    /\ qblocks' = qblocks \cup {[run |-> r, idx |-> i] : i \in BlockIdx}
    /\ qrun' = [qrun EXCEPT ![r].pc = "chunk_fetch"]
    /\ UNCHANGED <<qchunks, notRaceVars>>

\* chunking: blocks = db.fetch_blocks_for_doc(doc_id); without blocks
\* run_one raises no_blocks and _process ends
race_fetch_blocks(r) ==
    /\ qrun[r].pc = "chunk_fetch"
    /\ qrun' = [qrun EXCEPT ![r].fetched = qblocks,
                            ![r].pc = IF qblocks = {} THEN "done"
                                      ELSE "chunk_plan"]
    /\ UNCHANGED <<qblocks, qchunks, notRaceVars>>

\* chunking: plan_id = db.insert_chunk_plan(...), a new plan per run
race_insert_plan(r) ==
    /\ qrun[r].pc = "chunk_plan"
    /\ qrun' = [qrun EXCEPT ![r].plan_id = r, ![r].pc = "chunk_delete"]
    /\ UNCHANGED <<qblocks, qchunks, notRaceVars>>

\* chunking: db.delete_chunks_for_doc(doc_id)
race_delete_chunks(r) ==
    /\ qrun[r].pc = "chunk_delete"
    /\ qchunks' = {}
    /\ qrun' = [qrun EXCEPT ![r].pc = "chunk_insert"]
    /\ UNCHANGED <<qblocks, notRaceVars>>

\* chunking: db.insert_chunks_bulk(rows), the rows made of the fetched
\* blocks
race_insert_chunks(r) ==
    /\ qrun[r].pc = "chunk_insert"
    /\ qchunks' = qchunks \cup
                    {[plan_id |-> qrun[r].plan_id, block |-> b] :
                       b \in qrun[r].fetched}
    /\ qrun' = [qrun EXCEPT ![r].pc = "done"]
    /\ UNCHANGED <<qblocks, notRaceVars>>

RaceInit ==
    /\ qblocks = {}
    /\ qchunks = {}
    /\ qrun = [r \in RaceRuns |-> IdleRun]

NextRace ==
    \/ \E r \in RaceRuns : start_process(r)
    \/ \E r \in RaceRuns : race_delete_blocks(r)
    \/ \E r \in RaceRuns : race_insert_blocks(r)
    \/ \E r \in RaceRuns : race_fetch_blocks(r)
    \/ \E r \in RaceRuns : race_insert_plan(r)
    \/ \E r \in RaceRuns : race_delete_chunks(r)
    \/ \E r \in RaceRuns : race_insert_chunks(r)

(***************************************************************************)
(* Specifications: the same initial state, one next-state relation per     *)
(* subsystem                                                               *)
(***************************************************************************)
InitRest == JobsInit /\ IngestInit /\ PipeInit /\ RetrInit /\ StreamInit /\ GenInit /\ BreakerInit /\ EmbedInit /\ StageInit /\ PolicyInit /\ CapInit /\ TinyInit /\ DeleteInit /\ CacheInit /\ RaceInit

Init == InitRest /\ PackIdle

\* a call of _pack_narrative, its segments drawn from SegLists
InitPack == InitRest /\ PackInit

SpecJobs == Init /\ [][NextJobs]_vars

SpecIndex == Init /\ [][NextIndex]_vars

SpecIngest == Init /\ [][NextIngest]_vars

SpecPipe == Init /\ [][NextPipe]_vars

SpecRetr == Init /\ [][NextRetr]_vars


SpecStream == Init /\ [][NextStream]_vars

SpecGen == Init /\ [][NextGen]_vars

SpecBreaker == Init /\ [][NextBreaker]_vars

SpecEmbed == Init /\ [][NextEmbed]_vars

SpecBatch == Init /\ [][NextBatch]_vars

SpecStage == Init /\ [][NextStage]_vars

SpecPolicy == Init /\ [][NextPolicy]_vars

SpecCap == Init /\ [][NextCap]_vars

SpecTiny == Init /\ [][NextTiny]_vars

SpecPack == InitPack /\ [][NextPack]_vars

\* the call is a running thread: it takes its next step
SpecPackLive == InitPack /\ [][NextPack]_vars /\ WF_vars(NextPack)

SpecDelete == Init /\ [][NextDelete]_vars

SpecCache == Init /\ [][NextCache]_vars

SpecRace == Init /\ [][NextRace]_vars
(***************************************************************************)
(* Claims about the job orchestrator                                       *)
(***************************************************************************)
IsPrefix(s, t) == Len(s) <= Len(t) /\ \A i \in 1..Len(s) : s[i] = t[i]

JobRuns(j) == {id \in RunIds : runs[id].mode = "job" /\ runs[id].job = j}

\* C4: in every execution mode the stages of a document's run are entered
\* in the order Normalize, Extract, Chunk, Graph, Embed, each only after
\* the one before it returned, and a run that ends without a stage having
\* failed has gone through all five.
C4_StrictStageOrder ==
    \A id \in RunIds :
        runs[id].mode # "none" =>
            /\ IsPrefix(runs[id].started, AllStages)
            /\ runs[id].completed >= Len(runs[id].started) - 1
            /\ (Finished(runs[id]) /\ runs[id].outcome # "stage_failed")
                   => runs[id].started = AllStages

\* C8: when a document of an ingest job fails, the job's task still goes
\* through every document, records the failing document in the payload
\* and leaves the job DONE with progress 100.
C8_FailureDoesNotAbortJob ==
    \A j \in JobIds :
        (/\ bg[j].pc = "done"
         /\ \E id \in JobRuns(j) : runs[id].outcome = "stage_failed")
        => /\ Cardinality(JobRuns(j)) = Len(bg[j].docs)
           /\ jobs[j].error_doc # 0
           /\ jobs[j].status = "DONE"
           /\ jobs[j].progress = FullProgress

\* C9: a job whose status is DONE or ERROR keeps that status in every step.
C9_TerminalStatusIsFinal ==
    [][\A j \in JobIds :
          jobs[j].status \in {"DONE", "ERROR"}
              => jobs'[j].status = jobs[j].status]_vars

\* C10: no job is taken up by more than one executor.
C10_SingleExecutor ==
    \A j \in JobIds : Cardinality(claimed[j]) <= 1

(***************************************************************************)
(* Claims about retrieval, ingestion and the stage services                *)
(***************************************************************************)
\* C1: a response to a query of tenant T holds no chunk and cites no
\* document that belongs to another tenant, whichever path produced it.
C1_TenantIsolation ==
    resp.mode # "none" =>
        /\ \A d \in resp.docs : docTenant[d] = resp.tenant
        /\ \A cid \in resp.chunks : docTenant[ChunkDoc(cid)] = resp.tenant

DoneUploads(sha) == {u \in Uploads : up[u].pc = "done" /\ up[u].sha = sha}

\* C2: of the uploads of one sha256, whether one after the other or at the
\* same time, only one stores the blob and the document; every other one
\* is answered duplicate=true with that document's doc_id and state STORED.
C2_DedupOnReingest ==
    \A sha \in Shas :
        /\ blob_puts[sha] <= 1
        /\ \A u \in DoneUploads(sha) :
              /\ up[u].item.state = "STORED"
              /\ up[u].item.doc_id = documents[sha]
        /\ \A u, v \in DoneUploads(sha) :
              u # v => up[u].item.duplicate \/ up[v].item.duplicate

\* C3: what a reader sees of a document's blocks, chunks or graph while a
\* stage replaces them is the whole set from before the run or the whole
\* set the run writes.
C3_ReaderSeesOldOrNew ==
    obs.kind # "none" =>
        \/ obs.rows = obs.old /\ obs.edges = obs.old_edges
        \/ obs.rows = obs.new /\ obs.edges = obs.new_edges

\* C5: an embedding run over the same chunks as the embedding run before
\* it upserts no vector and deletes none.
C5_ReembedUnchangedIsNoop ==
    (Len(embedLog) = 2 /\ embedLog[1].chunks = embedLog[2].chunks)
        => embedLog[2].upserted = 0 /\ embedLog[2].deleted = 0

ChecksumAt(rows, pos) == (CHOOSE c \in rows : c.span_start = pos).checksum

Positions(rows) == {c.span_start : c \in rows}

\* the two chunk sets cover the same spans and differ in one chunk's text
OneChunkModified(before, after) ==
    /\ Positions(before) = Positions(after)
    /\ Cardinality({pos \in Positions(before) :
           ChecksumAt(before, pos) # ChecksumAt(after, pos)}) = 1

PointIds(pts) == {p.id : p \in pts}

\* C6: when one chunk's text changed between two embedding runs (the
\* document re-chunked in between), the later run upserts one vector and
\* deletes none, and the index holds the same point ids with one checksum
\* changed.
C6_OneChangedChunkOneUpsert ==
    (Len(embedLog) = 2 /\ OneChunkModified(embedLog[1].chunks, embedLog[2].chunks))
        => /\ embedLog[2].upserted = 1
           /\ embedLog[2].deleted = 0
           /\ PointIds(embedLog[2].points) = PointIds(embedLog[1].points)
           /\ Cardinality(embedLog[2].points \ embedLog[1].points) = 1

\* C7: two chunking runs over the same blocks give the same plan (strategy
\* and parameters), the same chunk ids and the same checksums.
C7_RechunkIdempotent ==
    (Len(chunkLog) = 2 /\ chunkLog[1].blocks = chunkLog[2].blocks)
        => /\ chunkLog[2].strategy = chunkLog[1].strategy
           /\ chunkLog[2].block_count = chunkLog[1].block_count
           /\ chunkLog[2].chunk_ids = chunkLog[1].chunk_ids
           /\ chunkLog[2].checksums = chunkLog[1].checksums

(***************************************************************************)
(* Claims about /answer_stream                                             *)
(***************************************************************************)
\* meta chunk* meta done
CompleteForm(s) ==
    /\ Len(s) >= 3
    /\ s[1] = "meta"
    /\ \A i \in 2..(Len(s) - 2) : s[i] = "chunk"
    /\ s[Len(s) - 1] = "meta"
    /\ s[Len(s)] = "done"

\* a start of the complete form, ended by an error event
ErrorForm(s) ==
    /\ Len(s) >= 1
    /\ s[Len(s)] = "error"
    /\ \A i \in 1..(Len(s) - 1) : s[i] \in {"meta", "chunk"}

\* the response the client was not cut off from has ended
StreamEnded == strm.pc = "closed" /\ ~strm.cancelled

\* C11: every response that ran to its end is one initial meta event,
\* zero or more chunk events, one final meta event and done, or it ends
\* with an error event; in token mode and in fallback mode alike.
C11_EventSequence ==
    StreamEnded => CompleteForm(events) \/ ErrorForm(events)

\* C12: once the client has cancelled, the response carries no further
\* event and the token thread enqueues no further token.
C12_CancelStopsProducer ==
    strm.cancelled =>
        /\ Len(events) = strm.at_cancel
        /\ prod.after_cancel = 0

(***************************************************************************)
(* Claims about citations                                                  *)
(***************************************************************************)
\* C13: in every answer returned, each [^n] marker of the answer text has
\* exactly one returned citation with that n, and no returned citation
\* has an n above the number of packed sources.
C13_MarkersMatchCitations ==
    ans.mode # "none" =>
        /\ \A n \in MarkersOf(ans.answer) :
              Cardinality({i \in 1..Len(ans.citations) :
                             ans.citations[i] = n}) = 1
        /\ \A i \in 1..Len(ans.citations) :
              ans.citations[i] <= ans.n_sources

(***************************************************************************)
(* Claims about the circuit breaker                                        *)
(***************************************************************************)
\* C14: after failure_threshold failures of the index call in a row the
\* breaker is open for recovery_timeout seconds; a vector search made
\* while it is open returns an empty result with a WARN event and does not
\* call the index; one made after the timeout calls the index again.
C14_CircuitBreaker ==
    /\ OpenNow => BreakerRejects(brk, now)
    /\ vs.was_open => vs.empty /\ vs.warn /\ ~vs.called
    /\ vs.recovered /\ vs.kind # "skipped" => vs.called

\* a search was turned away while the breaker was open, and a later one,
\* after the timeout, reached the index
C14_Witness ==
    /\ vs.turned_away
    /\ vs.recovered
    /\ vs.called

(***************************************************************************)
(* Claims about embedding runs                                             *)
(***************************************************************************)
\* the chunk of a set with the given id
ChunkById(rows, cid) == CHOOSE c \in rows : c.chunk_id = cid

\* C15: after a run that failed in part, once a run completes without a
\* failure the index holds one point per current chunk, carrying the
\* chunk's checksum, and no point of a chunk that is gone.
C15_ReembedConverges ==
    (erun.failed_before /\ erun.clean)
        => /\ PointIds(erun.points) = {c.chunk_id : c \in erun.chunks}
           /\ \A p \in erun.points :
                 p.id \in {c.chunk_id : c \in erun.chunks}
                    => p.checksum = ChunkById(erun.chunks, p.id).checksum

\* C16: after a document is embedded, every point written for it has a
\* payload chunk_id equal to its point id and a payload checksum equal to
\* the checksum stored on the chunk.
C16_PayloadMatchesChunk ==
    erun.n > 0 =>
        \A p \in erun.pts :
            /\ p.payload.chunk_id = p.id
            /\ p.payload.checksum = ChunkById(erun.chunks, p.id).checksum

(***************************************************************************)
(* Claims about ingestion events and store_many's result                   *)
(***************************************************************************)
\* the ingests of a content that have ended
FinishedIngests(s) == {u \in Uploads : up[u].pc = "done" /\ up[u].sha = s}

\* C17: for a document the event log holds one DOC_STORED event, and one
\* DOC_DUPLICATE event for each further ingest of its content, by file
\* or by URL.
C17_StoredAndDuplicateEvents ==
    \A s \in Shas :
        documents[s] # 0 =>
            /\ evlog["DOC_STORED"][s] = 1
            /\ evlog["DOC_DUPLICATE"][s] = Cardinality(FinishedIngests(s)) - 1

\* C18: store_many returns one item per file; a file that failed has an
\* ERROR item and a DOC_STORE_FAIL event, and the other files are
\* processed and reported all the same.
C18_BatchNeverAborted ==
    res.status # "none" =>
        /\ res.status = "returned"
        /\ \A u \in res.files :
              /\ up[u].pc = "done"
              /\ Cardinality({i \in res.items : i.file = u}) = 1
        /\ \A i \in res.items :
              i.state = "ERROR" => evlog["DOC_STORE_FAIL"][up[i.file].sha] >= 1

(***************************************************************************)
(* Claims about ingest_index                                               *)
(***************************************************************************)
\* the runs whose document has its entry in "results"
Reported == {r \in RunIds : out[r].status # "none"}

\* C19: every document of the batch gets one result, and an inline run
\* reports OK for a document exactly when its five stages completed, and
\* an error result otherwise.
C19_InlineStatusOK ==
    \A r \in Reported :
        /\ out[r].doc_id = runs[r].doc
        /\ runs[r].mode = "inline" =>
              /\ out[r].status \in {"OK", "FAIL"}
              /\ out[r].status = "OK" <=> runs[r].completed = Len(InlineStages)

(***************************************************************************)
(* Claims about a stage that raises                                        *)
(***************************************************************************)
\* documents.state after the first n stages of the pipeline
StateOfLastCompleted(n) ==
    IF n = 0 THEN "STORED" ELSE IF n = 1 THEN "NORMALIZED" ELSE "EXTRACTED"

\* C20: when a stage raises an exception it did not plan for, a FAIL
\* event with the error is recorded and the document's state stays that
\* of the last stage that completed.
C20_FailEventAndState ==
    \A d \in StageDocIds :
        pd[d].raised # "none" =>
            /\ pd[d].fail_events # {}
            /\ pd[d].state = StateOfLastCompleted(pd[d].completed)

(***************************************************************************)
(* Per-file policy violations                                              *)
(***************************************************************************)
\* C21: a file that violates a policy check is, in strict mode, REJECTED
\* with a WARN event and stores nothing; in non-strict mode a WARN event
\* is recorded, ingestion proceeds and the returned item carries the
\* violation in its warnings, also when the file is a duplicate.
C21_PolicyViolation ==
    \A u \in PolUploads :
        (pol[u].pc = "done" /\ pol[u].viol # {}) =>
            /\ \E k \in pol[u].viol : <<u, k>> \in pevents
            /\ IF pol[u].strict
               THEN /\ pol[u].item.state = "REJECTED"
                    /\ pol[u].item.doc_id = 0
               ELSE /\ pol[u].item.state = "STORED"
                    /\ pol[u].viol \subseteq pol[u].item.warnings

(***************************************************************************)
(* Citation repair                                                         *)
(***************************************************************************)
\* C23: when the reply's citations are empty and the answer text has
\* [^n] markers of packed footnotes, the citations returned are those
\* markers; the first two footnotes are cited only when the text has no
\* such marker.
C23_CitationRepair ==
    (ans.mode = "rag" /\ ans.parsed_empty /\ ~ans.hinted) =>
        LET fn == 1..ans.n_sources
            marked == MarkersOf(ans.answer) \cap fn
            cited == {ans.citations[i] : i \in 1..Len(ans.citations)}
        IN  IF marked # {}
            THEN cited = marked
            ELSE ans.citations = FirstTwo(pack_context(ans.n_sources))

(***************************************************************************)
(* Per-document cap                                                        *)
(***************************************************************************)
\* C22: the final result list of a search holds at most doc_cap_per_doc
\* chunks of any one document, in hybrid and in vector-only mode.
C22_DocCap ==
    cres.mode \in {"hybrid", "vector"} =>
        \A d \in CapDocs : CountOf(cres.results, d) <= doc_cap_per_doc

(***************************************************************************)
(* The tiny strategy                                                       *)
(***************************************************************************)
NoTableAndSmall(bs) ==
    /\ SelectSeq(bs, IsTable) = <<>>
    /\ SumChars(bs) < tiny_doc_chars

C24_TinyMergeIff ==
    pk.pc = "done" =>
        /\ \A x \in 1..Len(pk.rows) :
              \A n \in 2..Len(pk.rows[x].merged) :
                 5 * SumSeq(SubSeq(pk.rows[x].merged, 1, n))
                    <= 6 * target_tokens
        /\ \A x \in 1..(Len(pk.rows) - 1) :
              pk.rows[x + 1].merged[1] < tiny_tokens =>
                 5 * (RowTokens(pk.rows[x]) + pk.rows[x + 1].merged[1])
                    > 6 * target_tokens

\* C29: when a segment above the target is split, every part of its text
\* is in at least one emitted chunk.
C29_NoContentDropped ==
    pk.pc = "done" =>
        \A s \in 1..Len(pk.segs) :
            SumSeq(pk.segs[s]) > target_tokens =>
                \A p \in 1..Len(parts_of(pk.segs[s])) :
                    \E x \in 1..Len(pk.rows) : <<s, p>> \in pk.rows[x].content

LoopsAdvance ==
    /\ (pk.pc \in {"pack", "split"} /\ pk'.pc = "pack") => pk'.i > pk.i
    /\ (pk.pc = "split" /\ pk'.pc = "split") => pk'.si > pk.si
    /\ pk'.i <= Len(pk'.segs) + 1
    /\ pk'.si <= Len(pk'.parts) + 1

\* C30: every iteration of the packing loop of _pack_narrative and of
\* _split_long_segment ends with a greater window start index, and the
\* call comes to its end.
C30_PackingTerminates == [][LoopsAdvance]_vars /\ <>(pk.pc = "done")

\* a call that met a part above the target and backed off for overlap
C30_Witness ==
    /\ pk.pc = "done"
    /\ \E s \in 1..Len(pk.segs) : pk.segs[s] = <<900, 1>>
    /\ \E s \in 1..(Len(pk.segs) - 1) :
          pk.segs[s] = <<46>> /\ pk.segs[s + 1] = <<46>>

(***************************************************************************)
(* Soft delete                                                             *)
(***************************************************************************)
\* C26: a document in state DELETED stays in state DELETED, whatever runs
\* afterwards: a re-ingest of its content or a pipeline stage.
C26_DeletedStays ==
    [][\A d \in DelDocs :
          dstate[d] = "DELETED" => dstate'[d] = "DELETED"]_vars

(***************************************************************************)
(* Graph expansion after a re-chunk                                        *)
(***************************************************************************)
\* C28: graph expansion returns only chunks that are in the store for the
\* document when it is called, never a chunk a re-chunk deleted.
C28_ExpansionIsCurrent ==
    cexp.called => cexp.ids \subseteq cexp.store

(***************************************************************************)
(* Two pipeline runs on one document                                       *)
(***************************************************************************)
\* C27: once two interleaved pipeline runs on a document have finished,
\* its blocks and chunks are the output of one run: no block and no chunk
\* is stored twice, and all chunks have one plan.
C27_SingleRunOutput ==
    (\A r \in RaceRuns : qrun[r].pc = "done") =>
        /\ \E r \in RaceRuns :
              qblocks = {[run |-> r, idx |-> i] : i \in BlockIdx}
        /\ \E r \in RaceRuns :
              qchunks = {[plan_id |-> r, block |-> b] : b \in qblocks}

====
